---- MODULE Spec2Model ----
(***************************************************************************)
(* State-machine model of the uStreamer DRM display engine                 *)
(* (src/libs/drm/drm.c) and of the Rockchip MPP codec processors           *)
(* (src/ustreamer/encoders/mpp).  Every C function is an operator that     *)
(* maps a "world" record (the runtime object plus the kernel objects it    *)
(* talks to) to the world after the call; the actions apply the public     *)
(* functions to the current state.  Results of system calls the code       *)
(* branches on are inputs of the actions.                                  *)
(***************************************************************************)
EXTENDS Integers, Sequences, FiniteSets, TLC

\* ------------------------------------------------------------------ bounds
\* Last value of the monotonic clock.
MaxNow == 4
\* drm->blank_after, in clock ticks (an option; the program's default is 5).
BlankAfter == 2
\* Most completed-flip events the DRM file keeps unread.
MaxEvents == 1
\* Most writes of the DPMS property kept in the kernel-side log.
MaxDpmsLog == 3
\* cap->run->n_bufs of the capture device.
CapBufs == 2
\* Largest width or height drawn for the centering function.
MaxDim == 4
\* Most codec calls per processor.
MaxFrames == 3
\* Most calls of us_drm_open in a run that also exposes frames.
MaxOpens == 1
\* Most calls of us_drm_open in a run of opens and closes only.
MaxReopens == 3
\* The longest mode list of a connector.
MaxModes == 3
\* Largest frame, in bytes, whose pixel bytes are drawn.
MaxBytes == 12
\* Most conversions into one destination frame.
MaxConverts == 2
\* Most calls of us_unjpeg with one destination frame.
MaxUnjpegs == 2

\* --------------------------------------------------------------- constants
US_DRM_STUB_USER == 1
US_DRM_STUB_BAD_RESOLUTION == 2
US_DRM_STUB_BAD_FORMAT == 3
US_DRM_STUB_NO_SIGNAL == 4
US_DRM_STUB_BUSY == 5
\* libs/errors.h; the code compares it to 0 and to the other results only.
US_ERROR_NO_DEVICE == -2
\* n_bufs of a stub-mode display (_drm_init_buffers with cap == NULL).
StubBufs == 4

VARIABLES
    run,      \* us_drm_runtime_s
    port,     \* drm->port
    kms,      \* the kernel's objects: CRTC, flips, events, connector, DPMS
    cap,      \* the capture device the caller passed to us_drm_open
    now,      \* us_get_now_monotonic()
    call,     \* the last call: its name, return value and what it did
    hist,     \* history of the current open..close cycle
    aborted,  \* an assert() failed and the process was aborted
    center,   \* input and result of the centering function
    enc,      \* the H.264 encoder processor
    dec,      \* the MJPEG decoder processor
    mpp,      \* the last codec call
    tc,       \* the MJPEG-to-H.264 transcoder
    img,      \* source and destination of a pixel-format conversion
    jpg,      \* input and output of the software JPEG decoder
    thr,      \* concurrent callers of the display runtime
    waiter    \* a codec call between its initialized check and the lock

drmVars == <<run, port, kms, cap, now, call, hist, aborted>>
centerVars == <<center>>
mppVars == <<enc, dec, mpp, waiter>>
libVars == <<tc, img, jpg, thr, waiter>>
vars ==
    <<run, port, kms, cap, now, call, hist, aborted, center, enc, dec, mpp,
      tc, img, jpg, thr, waiter>>

\* ------------------------------------------------------------ null values
NoPort == "NULL"
NoCap == [null |-> TRUE]
NoCrtc == [null |-> TRUE]
NoMode == [null |-> TRUE]
NoFlip == [fb |-> 0, dma_fd |-> -1]
NoNote ==
    [status |-> "none", flip |-> "none", setcrtc |-> "none",
     fb_written |-> FALSE, stub |-> 0, dpms_off |-> FALSE,
     restore |-> "none", master |-> "none"]

\* A world: the state a function works on, its return value and its notes.
World ==
    [run |-> run, port |-> port, kms |-> kms, ret |-> 0,
     note |-> NoNote, aborted |-> FALSE]

\* assert(cond) failed.
Abort(w) == [w EXCEPT !.aborted = TRUE]

Return(w, retval) == [w EXCEPT !.ret = retval]

\* ------------------------------------------------------- kernel behaviour
\* drmModePageFlip: the kernel keeps one pending flip per CRTC and answers
\* EBUSY while one is pending; flip_ok = FALSE is any other refusal.
drmModePageFlip(w, flip, flip_ok) ==
    IF flip_ok /\ w.kms.flip_pending = NoFlip
    THEN [w EXCEPT !.kms.flip_pending = flip, !.note.flip = "queued", !.ret = 0]
    ELSE [w EXCEPT !.note.flip = "refused", !.ret = -1]

\* The event the kernel queues for a completed flip; the handler looks at
\* no field of it, the model keeps the dma_fd of the flipped buffer.
FlipEvent(flip) == [dma_fd |-> flip.dma_fd]

\* drmModeSetCrtc: an accepted mode set completes the pending flip first.
drmModeSetCrtc(w, crtc, ok) ==
    IF ok
    THEN [w EXCEPT
            !.kms.crtc = crtc,
            !.kms.events =
                IF w.kms.flip_pending # NoFlip /\ Len(@) < MaxEvents
                THEN Append(@, FlipEvent(w.kms.flip_pending)) ELSE @,
            !.kms.flip_pending = NoFlip,
            !.ret = 0]
    ELSE [w EXCEPT !.ret = -1]

\* close(run->fd): the kernel drops the file's pending flip and events.
CloseFd(w) ==
    [w EXCEPT !.kms.flip_pending = NoFlip, !.kms.events = <<>>,
              !.kms.dumbs = {}, !.kms.fbs = {}, !.run.fd = -1]

\* ------------------------------------------------------------ us_drm_init
InitRun ==
    [fd |-> -1, status_fd |-> -1, crtc_id |-> 0, conn_id |-> 0,
     dpms_id |-> 0, mode |-> NoMode, bufs |-> <<>>, n_bufs |-> 0,
     saved_crtc |-> NoCrtc, dpms_state |-> -1, opened |-> -1,
     has_vsync |-> TRUE, exposing_dma_fd |-> -1, stub_n_buf |-> 0,
     blank_at_ts |-> 0, platform |-> "unknown"]

\* ------------------------------------------------------ _drm_check_status
\* st is what reading the connector's status file gives: "c" (connected),
\* "d" (disconnected) or "err" (the file cannot be opened, rewound or read).
_drm_check_status(w, st) ==
    IF w.port = NoPort THEN [w EXCEPT !.ret = 0, !.note.status = "skipped"]
    ELSE IF st = "err"
        THEN [w EXCEPT !.run.status_fd = -1, !.ret = -1, !.note.status = st]
    ELSE [w EXCEPT !.run.status_fd = 4, !.note.status = st,
                   !.ret = IF st = "d" THEN US_ERROR_NO_DEVICE ELSE 0]

\* A variant that writes the property whatever dpms_state holds.
EnsureDpmsPowerAlways(w, on) ==
    [w EXCEPT
        !.kms.dpms_log = IF w.run.dpms_id > 0 THEN Append(@, on) ELSE @,
        !.note.dpms_off = IF on = 0 THEN TRUE ELSE @,
        !.run.dpms_state = on]

\* ------------------------------------------------- _drm_ensure_dpms_power
\* on is 1 or 0; the result of drmModeConnectorSetProperty is only logged.
_drm_ensure_dpms_power(w, on) ==
    [w EXCEPT
        !.kms.dpms_log =
            IF w.run.dpms_id > 0 /\ w.run.dpms_state # on
            THEN Append(@, on) ELSE @,
        !.note.dpms_off = IF on = 0 THEN TRUE ELSE @,
        !.run.dpms_state = on]

\* ----------------------------------------------------- _drm_vsync_callback
_drm_vsync_callback(w, ev) ==
    [w EXCEPT !.run.has_vsync = TRUE, !.run.exposing_dma_fd = -1]

\* drmHandleEvent reads every event queued on the file and calls the
\* page_flip_handler for each of them.
RECURSIVE drmHandleEvent(_, _)
drmHandleEvent(w, evs) ==
    IF evs = <<>> THEN [w EXCEPT !.kms.events = <<>>]
    ELSE drmHandleEvent(_drm_vsync_callback(w, Head(evs)), Tail(evs))

\* Names the world a step of a function produced for the steps after it.
With(w, Rest(_)) == Rest(w)

\* --------------------------------------------------- us_drm_wait_for_vsync
\* io.st as in _drm_check_status; io.handle_ok: drmHandleEvent succeeded.
\* select() times out when no event is queued on the file.
us_drm_wait_for_vsync(w, io) ==
    IF w.run.fd < 0 THEN Abort(w)
    ELSE With(_drm_check_status([w EXCEPT !.run.blank_at_ts = 0], io.st),
      LAMBDA w2 :
        IF w2.ret = US_ERROR_NO_DEVICE THEN Return(w2, US_ERROR_NO_DEVICE)
        ELSE IF w2.ret # 0 THEN Return(w2, -1)
        ELSE With(_drm_ensure_dpms_power(w2, 1), LAMBDA w3 :
            IF w3.run.has_vsync THEN Return(w3, 0)
            ELSE IF w3.run.platform = "amlogic"
                THEN Return([w3 EXCEPT !.run.has_vsync = TRUE], 0)
            ELSE IF w3.kms.events = <<>> THEN Return(w3, -1)
            ELSE IF ~io.handle_ok THEN Return(w3, -1)
            ELSE Return(drmHandleEvent(w3, w3.kms.events), 0)))

\* ------------------------------------------------------ us_drm_expose_stub
\* The framebuffer id of buffer n of the pool.
FbId(n) == n + 1

us_drm_expose_stub(w, stub, ex_cap, io) ==
    IF w.run.fd < 0 \/ ~(w.run.opened > 0) THEN Abort(w)
    ELSE With(_drm_check_status([w EXCEPT !.run.blank_at_ts = 0], io.st),
      LAMBDA w2 :
        IF w2.ret = US_ERROR_NO_DEVICE THEN Return(w2, US_ERROR_NO_DEVICE)
        ELSE IF w2.ret # 0 THEN Return(w2, -1)
        ELSE With(_drm_ensure_dpms_power(w2, 1), LAMBDA w3 :
            IF stub = US_DRM_STUB_BAD_RESOLUTION /\ ex_cap = NoCap
            THEN Abort(w3)
            ELSE With(drmModePageFlip(
                          [w3 EXCEPT !.run.has_vsync = FALSE,
                                     !.note.fb_written = TRUE,
                                     !.note.stub = stub],
                          [fb |-> FbId(w3.run.stub_n_buf), dma_fd |-> -1],
                          io.flip_ok),
              LAMBDA w5 :
                [w5 EXCEPT !.run.stub_n_buf = (@ + 1) % w5.run.n_bufs])))

\* A variant of us_drm_expose_dma that flips whatever the connector status
\* reads, and gives the status back afterwards.
ExposeDmaIgnoringStatus(w, hw, io) ==
    IF w.run.fd < 0 \/ w.run.opened # 0 THEN Abort(w)
    ELSE IF hw.index >= w.run.n_bufs THEN Return(w, -1)
    ELSE With(_drm_check_status([w EXCEPT !.run.blank_at_ts = 0], io.st),
      LAMBDA w2 :
        With(drmModePageFlip(
                 [w2 EXCEPT !.run.has_vsync = FALSE],
                 [fb |-> w2.run.bufs[hw.index + 1].id, dma_fd |-> hw.dma_fd],
                 io.flip_ok),
          LAMBDA w5 :
            Return([w5 EXCEPT !.run.exposing_dma_fd = hw.dma_fd],
                   IF w2.ret # 0 THEN w2.ret ELSE w5.ret)))

\* ------------------------------------------------------- us_drm_expose_dma
\* hw is a us_capture_hwbuf_s: [index, dma_fd, width, height, format, used].
us_drm_expose_dma(w, hw, io) ==
    IF w.run.fd < 0 \/ w.run.opened # 0 THEN Abort(w)
    ELSE IF hw.index >= w.run.n_bufs THEN Return(w, -1)
    ELSE With(_drm_check_status([w EXCEPT !.run.blank_at_ts = 0], io.st),
      LAMBDA w2 :
        IF w2.ret = US_ERROR_NO_DEVICE THEN Return(w2, US_ERROR_NO_DEVICE)
        ELSE IF w2.ret # 0 THEN Return(w2, -1)
        ELSE With(_drm_ensure_dpms_power(w2, 1), LAMBDA w3 :
            With(drmModePageFlip(
                     [w3 EXCEPT !.run.has_vsync = FALSE,
                                !.note.fb_written =
                                    w3.run.bufs[hw.index + 1].data
                                    /\ hw.used > 0],
                     [fb |-> w3.run.bufs[hw.index + 1].id,
                      dma_fd |-> hw.dma_fd],
                     io.flip_ok),
              LAMBDA w5 : [w5 EXCEPT !.run.exposing_dma_fd = hw.dma_fd])))

\* A variant that keeps a fitting source in the top left corner.
CalculateCenterTopLeft(src_width, src_height, dst_width, dst_height) ==
    [src_width |-> src_width, src_height |-> src_height,
     offset_x |-> 0, offset_y |-> 0,
     needs_center |-> src_width <= dst_width /\ src_height <= dst_height]

\* --------------------------------------------------- _drm_calculate_center
_drm_calculate_center(src_width, src_height, dst_width, dst_height) ==
    IF src_width <= dst_width /\ src_height <= dst_height
    THEN [src_width |-> src_width, src_height |-> src_height,
          offset_x |-> (dst_width - src_width) \div 2,
          offset_y |-> (dst_height - src_height) \div 2,
          needs_center |-> TRUE]
    ELSE [src_width |-> src_width, src_height |-> src_height,
          offset_x |-> 0, offset_y |-> 0, needs_center |-> FALSE]

\* The offsets us_drm_expose_dma computes inline for its fallback copy.
ExposeDmaOffsets(src_width, src_height, dst_width, dst_height) ==
    [offset_x |-> IF dst_width > src_width
                  THEN (dst_width - src_width) \div 2 ELSE 0,
     offset_y |-> IF dst_height > src_height
                  THEN (dst_height - src_height) \div 2 ELSE 0]

\* ------------------------------------------------ _drm_expose_rpi_v4p_impl
_drm_expose_rpi_v4p_impl(w, hw, io) ==
    IF hw.index >= w.run.n_bufs THEN Return(w, -1)
    ELSE IF ~w.run.bufs[hw.index + 1].data THEN Return(w, -1)
    ELSE drmModePageFlip([w EXCEPT !.run.has_vsync = FALSE],
             [fb |-> w.run.bufs[hw.index + 1].id, dma_fd |-> -1],
             io.flip_ok)

\* ---------------------------------------- _drm_expose_amlogic_display_impl
AmlogicFormats == {"YUYV", "RGB24", "BGR24", "MJPEG", "JPEG"}

_drm_expose_amlogic_display_impl(w, hw, io) ==
    IF ~_drm_calculate_center(hw.width, hw.height, w.run.mode.hdisplay,
                              w.run.mode.vdisplay).needs_center
    THEN us_drm_expose_stub(w, US_DRM_STUB_BAD_RESOLUTION, NoCap, io)
    ELSE IF hw.index >= w.run.n_bufs THEN Return(w, -1)
    ELSE IF ~w.run.bufs[hw.index + 1].data THEN Return(w, -1)
    ELSE With([w EXCEPT !.run.has_vsync = FALSE], LAMBDA w1 :
        IF hw.used = 0 THEN Return(w1, -1)
        ELSE IF hw.format \notin AmlogicFormats THEN Return(w1, -1)
        ELSE drmModeSetCrtc(
                 [w1 EXCEPT !.note.fb_written = TRUE,
                            !.note.setcrtc = IF io.setcrtc_ok
                                             THEN "ok" ELSE "refused"],
                 [buffer_id |-> w1.run.bufs[hw.index + 1].id,
                  x |-> 0, y |-> 0, mode |-> w1.run.mode],
                 io.setcrtc_ok))

\* -------------------------------------------------- us_drm_expose_centered
us_drm_expose_centered(w, hw, io) ==
    IF w.run.fd < 0 \/ w.run.opened # 0 THEN Abort(w)
    ELSE With(_drm_check_status([w EXCEPT !.run.blank_at_ts = 0], io.st),
      LAMBDA w2 :
        IF w2.ret = US_ERROR_NO_DEVICE THEN Return(w2, US_ERROR_NO_DEVICE)
        ELSE IF w2.ret # 0 THEN Return(w2, -1)
        ELSE With(_drm_ensure_dpms_power(w2, 1), LAMBDA w3 :
            IF w3.run.platform = "rpi"
            THEN _drm_expose_rpi_v4p_impl(w3, hw, io)
            ELSE IF w3.run.platform = "amlogic"
                THEN _drm_expose_amlogic_display_impl(w3, hw, io)
            ELSE Return(w3, -1)))

\* --------------------------------------------------- us_drm_dpms_power_off
us_drm_dpms_power_off(w, io) ==
    IF w.run.fd < 0 THEN Abort(w)
    ELSE With(_drm_check_status(w, io.st), LAMBDA w1 :
        IF w1.ret = US_ERROR_NO_DEVICE THEN Return(w1, 0)
        ELSE IF w1.ret # 0 THEN Return(w1, -1)
        ELSE Return(_drm_ensure_dpms_power(w1, 0), 0))

\* A variant of us_drm_ensure_no_signal that does not put the deadline
\* back after us_drm_wait_for_vsync and us_drm_expose_stub cleared it.
EnsureNoSignalLosingDeadline(w, now_ts, io) ==
    IF w.run.fd < 0 \/ ~(w.run.opened > 0) THEN Abort(w)
    ELSE With([w EXCEPT !.run.blank_at_ts =
                            IF @ = 0 THEN now_ts + BlankAfter ELSE @],
      LAMBDA w1 :
        IF now_ts <= w1.run.blank_at_ts
        THEN With(us_drm_wait_for_vsync(w1, io), LAMBDA w2 :
                 IF w2.ret = 0
                 THEN us_drm_expose_stub(w2, US_DRM_STUB_NO_SIGNAL, NoCap, io)
                 ELSE w2)
        ELSE us_drm_dpms_power_off(w1, io))

\* ------------------------------------------------- us_drm_ensure_no_signal
\* The branch taken while the deadline has not passed.
NoSignalStub(w, io) ==
    With(us_drm_wait_for_vsync(w, io), LAMBDA w2 :
        IF w2.ret = 0
        THEN us_drm_expose_stub(w2, US_DRM_STUB_NO_SIGNAL, NoCap, io)
        ELSE w2)

us_drm_ensure_no_signal(w, now_ts, io) ==
    IF w.run.fd < 0 \/ ~(w.run.opened > 0) THEN Abort(w)
    ELSE With([w EXCEPT !.run.blank_at_ts =
                            IF @ = 0 THEN now_ts + BlankAfter ELSE @],
      LAMBDA w1 :
        With(IF now_ts <= w1.run.blank_at_ts
             THEN NoSignalStub(w1, io)
             ELSE us_drm_dpms_power_off(w1, io),
          LAMBDA w4 :
            IF w4.aborted THEN w4
            ELSE [w4 EXCEPT !.run.blank_at_ts = w1.run.blank_at_ts]))

\* ------------------------------------------------------ _get_refresh_rate
\* In mHz: the C function returns (float)mhz / 1000.  clock * 1000000 is
\* split so that every intermediate value stays below 2^31.
_get_refresh_rate(mode) ==
    LET k == mode.clock * 1000
        per_line == (k \div mode.htotal) * 1000
                    + ((k % mode.htotal) * 1000) \div mode.htotal
        m0 == (per_line + mode.vtotal \div 2) \div mode.vtotal
        m1 == IF mode.interlace THEN m0 * 2 ELSE m0
        m2 == IF mode.dblscan THEN m1 \div 2 ELSE m1
    IN  IF mode.vscan > 1 THEN m2 \div mode.vscan ELSE m2

\* -------------------------------------------------------- _find_best_mode
\* One pass of the for loop over conn->modes; acc.brk is the loop's break.
FindBestModeStep(mode, width, height, hz, acc) ==
    LET mode_hz == _get_refresh_rate(mode)
        exact == mode.hdisplay = width /\ mode.vdisplay = height
        best1 == IF exact THEN mode ELSE acc.best
        brk1 == exact /\ hz > 0 /\ mode_hz = hz * 1000
        closest1 ==
            IF mode.hdisplay = width /\ mode.vdisplay < height
               /\ (acc.closest = NoMode
                   \/ _get_refresh_rate(acc.closest) # hz * 1000)
            THEN mode ELSE acc.closest
        pref1 == IF acc.pref = NoMode /\ mode.preferred
                 THEN mode ELSE acc.pref
    IN  IF mode.interlace THEN acc
        ELSE IF width = 640 /\ height = 416 /\ mode.hdisplay = 640
                /\ mode.vdisplay = 480 /\ hz > 0 /\ mode_hz < hz * 1000
            THEN [acc EXCEPT !.best = [mode EXCEPT !.vdisplay = 416],
                             !.brk = TRUE]
        ELSE IF brk1 THEN [acc EXCEPT !.best = best1, !.brk = TRUE]
        ELSE [best |-> best1, closest |-> closest1, pref |-> pref1,
              brk |-> FALSE]

RECURSIVE FindBestModeLoop(_, _, _, _, _)
FindBestModeLoop(modes, width, height, hz, acc) ==
    IF modes = <<>> \/ acc.brk THEN acc
    ELSE FindBestModeLoop(Tail(modes), width, height, hz,
             FindBestModeStep(Head(modes), width, height, hz, acc))

\* _find_best_mode that falls back to the preferred mode before the mode of
\* the same width and smaller height.
FindBestModePreferredFirst(modes, width, height, hz) ==
    LET acc == FindBestModeLoop(modes, width, height, hz,
                   [best |-> NoMode, closest |-> NoMode, pref |-> NoMode,
                    brk |-> FALSE])
    IN  IF acc.best # NoMode THEN acc.best
        ELSE IF acc.pref # NoMode THEN acc.pref
        ELSE IF acc.closest # NoMode THEN acc.closest
        ELSE IF Len(modes) > 0 THEN modes[1]
        ELSE NoMode

_find_best_mode(modes, width, height, hz) ==
    LET acc == FindBestModeLoop(modes, width, height, hz,
                   [best |-> NoMode, closest |-> NoMode, pref |-> NoMode,
                    brk |-> FALSE])
    IN  IF acc.best # NoMode THEN acc.best
        ELSE IF acc.closest # NoMode THEN acc.closest
        ELSE IF acc.pref # NoMode THEN acc.pref
        ELSE IF Len(modes) > 0 THEN modes[1]
        ELSE NoMode

\* ---------------------------------------------------------- _drm_find_sink
\* The device has one connector.  sink is what the kernel answers:
\* "ok", "no_res" (drmModeGetResources fails), "disconnected" (the
\* connector is not DRM_MODE_CONNECTED), "no_modes" (it lists no mode) or
\* "no_crtc" (_find_crtc finds none).
ConnPort == "HDMI-A-1"

_drm_find_sink(w, width, height, hz, sink) ==
    LET w0 == [w EXCEPT !.run.crtc_id = 0]
        w1 == [w0 EXCEPT !.port = ConnPort]
        modes == IF sink = "no_modes" THEN <<>> ELSE w.kms.modes
        best == _find_best_mode(modes, width, height, hz)
        w2 == [w1 EXCEPT !.run.dpms_id = IF w.kms.has_dpms THEN 7 ELSE 0]
    IN  IF sink = "no_res" THEN Return(w0, -1)
        ELSE IF w.port # NoPort /\ w.port # ConnPort THEN Return(w0, -1)
        ELSE IF sink = "disconnected" THEN Return(w0, -1)
        ELSE IF best = NoMode THEN Return(w1, US_ERROR_NO_DEVICE)
        ELSE IF sink = "no_crtc" THEN Return(w2, -1)
        ELSE Return([w2 EXCEPT !.run.crtc_id = 5, !.run.conn_id = 9,
                               !.run.mode = best], 0)

\* ------------------------------------------------------- _drm_init_buffers
\* bio.import_ok: drmPrimeFDToHandle succeeds; bio.fail_at: the buffer on
\* which a kernel call fails (n_bufs or more: none); bio.step: that call
\* ("dumb", "map", "mmap" or "fb"; an imported buffer makes only the last);
\* bio.retry: what the stub's retry with the fallback formats meets ("ok",
\* "dumb": no buffer can be created, "fb": no framebuffer can be added).
NoBuf ==
    [id |-> 0, dumb_created |-> FALSE, data |-> FALSE, fb_added |-> FALSE,
     width |-> 0, height |-> 0, dumb_width |-> 0, dumb_height |-> 0]

\* The surface a buffer is made of.
SurfaceOf(w, ib_cap, bio) ==
    IF ib_cap = NoCap THEN "stub"
    ELSE IF w.run.platform # "amlogic" /\ bio.import_ok THEN "imported"
    ELSE "fallback"

\* The step at which buffer n fails ("none": at no step).
FailStep(w, ib_cap, bio, n) ==
    IF n # bio.fail_at THEN "none"
    ELSE IF SurfaceOf(w, ib_cap, bio) = "imported" THEN "fb"
    ELSE IF SurfaceOf(w, ib_cap, bio) = "stub" /\ bio.step = "fb"
    THEN (IF bio.retry = "ok" THEN "none" ELSE "retry_" \o bio.retry)
    ELSE bio.step

\* One turn of the loop; data is TRUE for a mapped buffer.
InitBuffer(w, ib_cap, bio, n) ==
    LET surface == SurfaceOf(w, ib_cap, bio)
        step == FailStep(w, ib_cap, bio, n)
        dumb == surface # "imported" /\ step \notin {"dumb", "retry_dumb"}
        added == step = "none"
    IN  [id |-> IF added THEN FbId(n) ELSE 0,
         dumb_created |-> dumb,
         data |-> dumb /\ step \notin {"map", "mmap"},
         fb_added |-> added,
         width |-> IF ib_cap = NoCap THEN w.run.mode.hdisplay
                   ELSE ib_cap.width,
         height |-> IF ib_cap = NoCap THEN w.run.mode.vdisplay
                    ELSE ib_cap.height,
         dumb_width |-> IF dumb THEN w.run.mode.hdisplay ELSE 0,
         dumb_height |-> IF dumb THEN w.run.mode.vdisplay ELSE 0]

\* The fallback surface destroys its dumb buffer itself when the mapping
\* fails, and leaves dumb_created set.
DumbDestroyed(w, ib_cap, bio, n) ==
    /\ SurfaceOf(w, ib_cap, bio) = "fallback"
    /\ FailStep(w, ib_cap, bio, n) \in {"map", "mmap"}

_drm_init_buffers(w, ib_cap, bio) ==
    LET n_bufs == IF ib_cap = NoCap THEN StubBufs ELSE ib_cap.n_bufs
        failed == bio.fail_at < n_bufs
                  /\ FailStep(w, ib_cap, bio, bio.fail_at) # "none"
        made == [n \in 1..n_bufs |->
                    IF n - 1 <= bio.fail_at \/ ~failed
                    THEN InitBuffer(w, ib_cap, bio, n - 1)
                    ELSE NoBuf]
    IN  [w EXCEPT
            !.run.bufs = made,
            !.run.n_bufs = IF failed THEN bio.fail_at ELSE n_bufs,
            !.kms.dumbs = {n \in 1..n_bufs :
                              /\ made[n].dumb_created
                              /\ ~DumbDestroyed(w, ib_cap, bio, n - 1)},
            !.kms.maps = @ \cup {n \in 1..n_bufs : made[n].data},
            !.kms.fbs = {n \in 1..n_bufs : made[n].fb_added},
            !.ret = IF failed THEN -1 ELSE 0]

\* ------------------------------------------------------------ us_drm_close
\* The wait for the buffer a DMA flip still pins.
CloseWait(w, io) ==
    IF w.run.exposing_dma_fd < 0 THEN w
    ELSE IF w.run.fd < 0 THEN Abort(w)
    ELSE [us_drm_wait_for_vsync(w, io) EXCEPT !.run.exposing_dma_fd = -1]

\* A variant of the restore that forgets the saved CRTC without setting it.
CloseRestoreSkipped(w, restore_ok) ==
    IF w.run.saved_crtc = NoCrtc THEN w
    ELSE [w EXCEPT !.run.saved_crtc = NoCrtc,
                   !.note.restore = IF restore_ok THEN "ok" ELSE "refused"]

\* The restore of the CRTC saved by us_drm_open; a failure is only logged.
CloseRestore(w, restore_ok) ==
    IF w.run.saved_crtc = NoCrtc THEN w
    ELSE [drmModeSetCrtc(w, w.run.saved_crtc, restore_ok) EXCEPT
              !.run.saved_crtc = NoCrtc,
              !.note.restore = IF restore_ok THEN "ok" ELSE "refused"]

\* A variant of the release that closes the files but keeps the buffer table.
CloseReleaseKeepingBufs(w) ==
    With([w EXCEPT !.run.status_fd = -1],
      LAMBDA wc : IF wc.run.fd >= 0 THEN CloseFd(wc) ELSE wc)

\* The release of the buffers and of the two files.
CloseRelease(w) ==
    With([w EXCEPT !.run.bufs = <<>>, !.run.n_bufs = 0,
                   !.run.status_fd = -1,
                   !.kms.fbs = @ \ {n \in 1..w.run.n_bufs :
                                       w.run.bufs[n].fb_added},
                   !.kms.dumbs = @ \ {n \in 1..w.run.n_bufs :
                                         w.run.bufs[n].dumb_created},
                   !.kms.maps = @ \ {n \in 1..w.run.n_bufs :
                                        w.run.bufs[n].data}],
      LAMBDA wc : IF wc.run.fd >= 0 THEN CloseFd(wc) ELSE wc)

\* io.restore_ok: the kernel accepts the drmModeSetCrtc of the restore.
us_drm_close(w, io) ==
    With(CloseWait(w, io), LAMBDA wa :
        IF wa.aborted THEN wa
        ELSE [CloseRelease(CloseRestore(wa, io.restore_ok)) EXCEPT
                  !.run.crtc_id = 0, !.run.dpms_state = -1,
                  !.run.opened = -1, !.run.has_vsync = TRUE,
                  !.run.stub_n_buf = 0])

\* ------------------------------------------------------------- us_drm_open
_detect_drm_platform(driver) ==
    IF driver = "vc4" THEN "rpi"
    ELSE IF driver = "meson" THEN "amlogic"
    ELSE "generic"

OpenFormats == {"RGB24", "BGR24", "YUYV", "MJPEG"}

\* The tail of us_drm_open at its labels "error" and "unplugged".
OpenError(w, io) ==
    With(us_drm_close(w, io), LAMBDA wz : Return(wz, wz.run.opened))

OpenUnplugged(w, io) ==
    Return([us_drm_close(w, io) EXCEPT !.run.opened = US_ERROR_NO_DEVICE],
           US_ERROR_NO_DEVICE)

\* The stub us_drm_open chooses before it looks for a sink.
OpenStub(op_cap) ==
    IF op_cap = NoCap THEN US_DRM_STUB_USER
    ELSE IF op_cap.format \notin OpenFormats THEN US_DRM_STUB_BAD_FORMAT
    ELSE 0

\* us_drm_open from _drm_init_buffers on; stub is the final stub.
OpenBuffers(w5, op_cap, stub, io) ==
    With(_drm_init_buffers(w5, IF stub > 0 THEN NoCap ELSE op_cap, io.bio),
      LAMBDA w6 :
        IF w6.ret < 0 THEN OpenError(w6, io)
        ELSE With(drmModeSetCrtc(
                      [w6 EXCEPT !.run.saved_crtc = w6.kms.crtc,
                                 !.note.setcrtc = io.setcrtc],
                      [buffer_id |-> w6.run.bufs[1].id, x |-> 0, y |-> 0,
                       mode |-> w6.run.mode],
                      io.setcrtc = "ok"),
          LAMBDA w9 :
            IF io.setcrtc = "err" THEN OpenError(w9, io)
            ELSE Return([w9 EXCEPT !.run.exposing_dma_fd = -1,
                                   !.run.blank_at_ts = 0,
                                   !.run.opened = stub], stub)))

\* us_drm_open from _drm_find_sink on; stub0 is the stub chosen so far.
OpenSink(w4, op_cap, stub0, io) ==
    With(_drm_find_sink(w4,
             IF stub0 > 0 THEN 0 ELSE op_cap.width,
             IF stub0 > 0 THEN 0 ELSE op_cap.height,
             IF stub0 > 0 THEN 0 ELSE op_cap.hz, io.sink),
      LAMBDA w5 :
        IF w5.ret = US_ERROR_NO_DEVICE THEN OpenUnplugged(w5, io)
        ELSE IF w5.ret # 0 THEN OpenError(w5, io)
        ELSE OpenBuffers(w5, op_cap,
                 IF stub0 = 0 /\ (op_cap.width # w5.run.mode.hdisplay
                                  \/ op_cap.height < w5.run.mode.vdisplay)
                 THEN US_DRM_STUB_BAD_RESOLUTION ELSE stub0, io))

\* io.open_ok: open(drm->path) succeeds; io.master_ok: drmSetMaster
\* succeeds; io.caps_ok: the drmGetCap checks pass; io.sink and io.bio as in
\* _drm_find_sink and _drm_init_buffers; io.setcrtc: "ok", "eacces" (EACCES
\* or EPERM) or "err".
us_drm_open(w, op_cap, io) ==
    IF ~(w.run.fd < 0) THEN Abort(w)
    ELSE With(_drm_check_status(w, io.st), LAMBDA w1 :
        IF w1.ret = US_ERROR_NO_DEVICE THEN OpenUnplugged(w1, io)
        ELSE IF w1.ret # 0 \/ ~io.open_ok THEN OpenError(w1, io)
        ELSE With([w1 EXCEPT !.run.fd = 3, !.kms.dpms_log = <<>>,
                             !.note.master = IF io.master_ok
                                             THEN "ok" ELSE "refused"],
          LAMBDA w3 :
            IF ~io.master_ok THEN OpenError(w3, io)
            ELSE With([w3 EXCEPT !.run.platform =
                                     _detect_drm_platform(w3.kms.driver)],
              LAMBDA w4 :
                IF ~io.caps_ok THEN OpenError(w4, io)
                ELSE OpenSink(w4, op_cap, OpenStub(op_cap), io))))

\* =========================================================================
\* The display engine as a state machine
\* =========================================================================
\* The connector's mode list: 1920x1080i, 1920x1080p60 (preferred), 640x480.
ConnModes ==
    << [clock |-> 74250, hdisplay |-> 1920, vdisplay |-> 1080,
        htotal |-> 2200, vtotal |-> 1125, vscan |-> 0,
        interlace |-> TRUE, dblscan |-> FALSE, preferred |-> FALSE],
       [clock |-> 148500, hdisplay |-> 1920, vdisplay |-> 1080,
        htotal |-> 2200, vtotal |-> 1125, vscan |-> 0,
        interlace |-> FALSE, dblscan |-> FALSE, preferred |-> TRUE],
       [clock |-> 25175, hdisplay |-> 640, vdisplay |-> 480,
        htotal |-> 800, vtotal |-> 525, vscan |-> 0,
        interlace |-> FALSE, dblscan |-> FALSE, preferred |-> FALSE] >>

\* The capture devices a caller opens the display for: one that fits the
\* mode, one taller than the mode, one smaller, one of a foreign format.
Caps ==
    { [width |-> 1920, height |-> 1080, hz |-> 60, format |-> "YUYV",
       n_bufs |-> CapBufs],
      [width |-> 1920, height |-> 1200, hz |-> 60, format |-> "RGB24",
       n_bufs |-> CapBufs],
      [width |-> 1280, height |-> 720, hz |-> 60, format |-> "MJPEG",
       n_bufs |-> CapBufs],
      [width |-> 1920, height |-> 1080, hz |-> 60, format |-> "NV12",
       n_bufs |-> CapBufs] }


\* The capture devices whose frames the exposure calls are given.
LiveCaps == {c \in Caps : c.format # "NV12"}

\* The hardware buffers the capture device hands out; used = 0 is a buffer
\* without frame data.
HwBuf(c) ==
    { [index |-> i, dma_fd |-> 10 + i, used |-> u, width |-> c.width,
       height |-> c.height, format |-> c.format] :
      i \in 0..(c.n_bufs - 1), u \in {0, 1} }

\* Answers of the system calls a call makes: the connector's status file,
\* drmHandleEvent succeeds, the kernel accepts the page flip, the mode set
\* of an exposure, the mode set that restores the CRTC.
GoodIO ==
    [st |-> "c", handle_ok |-> TRUE, flip_ok |-> TRUE,
     setcrtc_ok |-> TRUE, restore_ok |-> TRUE]

\* A call stops at the first system call that fails, so the answers to a
\* call are the all-good one and the ones with a single failure.
StatusIO == {GoodIO, [GoodIO EXCEPT !.st = "d"], [GoodIO EXCEPT !.st = "err"]}

WaitIO == StatusIO \cup {[GoodIO EXCEPT !.handle_ok = FALSE]}

FlipIO == StatusIO \cup {[GoodIO EXCEPT !.flip_ok = FALSE]}

NoSignalIO == WaitIO \cup FlipIO

CenteredIO == FlipIO \cup {[GoodIO EXCEPT !.setcrtc_ok = FALSE]}

CloseIO == WaitIO \cup {[GoodIO EXCEPT !.restore_ok = FALSE]}

\* The answers to us_drm_open.
GoodOpenIO ==
    [st |-> "c", handle_ok |-> TRUE, restore_ok |-> TRUE,
     open_ok |-> TRUE, master_ok |-> TRUE, caps_ok |-> TRUE, sink |-> "ok",
     bio |-> [import_ok |-> TRUE, fail_at |-> StubBufs + CapBufs,
              step |-> "fb", retry |-> "fb"],
     setcrtc |-> "ok"]

FailedOpenIO ==
    { [GoodOpenIO EXCEPT !.st = "d"],
      [GoodOpenIO EXCEPT !.st = "err"],
      [GoodOpenIO EXCEPT !.open_ok = FALSE],
      [GoodOpenIO EXCEPT !.master_ok = FALSE],
      [GoodOpenIO EXCEPT !.caps_ok = FALSE],
      [GoodOpenIO EXCEPT !.sink = "no_res"],
      [GoodOpenIO EXCEPT !.sink = "disconnected"],
      [GoodOpenIO EXCEPT !.sink = "no_modes"],
      [GoodOpenIO EXCEPT !.sink = "no_crtc"],
      [GoodOpenIO EXCEPT !.bio.fail_at = 1],
      [GoodOpenIO EXCEPT !.bio.fail_at = 1, !.bio.import_ok = FALSE],
      [GoodOpenIO EXCEPT !.bio.fail_at = 1, !.bio.step = "dumb"],
      [GoodOpenIO EXCEPT !.bio.fail_at = 1, !.bio.step = "map",
                         !.bio.import_ok = FALSE],
      [GoodOpenIO EXCEPT !.bio.fail_at = 1, !.bio.step = "mmap",
                         !.bio.import_ok = FALSE],
      [GoodOpenIO EXCEPT !.bio.fail_at = 1, !.bio.retry = "ok"],
      [GoodOpenIO EXCEPT !.bio.fail_at = 1, !.bio.retry = "dumb"],
      [GoodOpenIO EXCEPT !.setcrtc = "err"],
      [GoodOpenIO EXCEPT !.setcrtc = "err", !.restore_ok = FALSE] }

OpenIO ==
    FailedOpenIO \cup
    { [GoodOpenIO EXCEPT !.bio.import_ok = a, !.setcrtc = b] :
      a \in BOOLEAN, b \in {"ok", "eacces"} }

\* The state after a call returned.
Commit(w, name, h) ==
    /\ run' = w.run
    /\ port' = w.port
    /\ kms' = w.kms
    /\ aborted' = w.aborted
    /\ call' = [op |-> name, ret |-> w.ret, note |-> w.note]
    /\ hist' = h
    /\ UNCHANGED <<now, center, enc, dec, mpp, libVars>>

\* No call is made after an abort, and none once the DPMS log is full.
Callable == ~aborted /\ Len(kms.dpms_log) < MaxDpmsLog

\* The state after us_drm_init on a device with one of the drivers; ports
\* are the values of the port option (NoPort: detect the connector).
InitDrmOn(ports, drivers, lists) ==
    /\ run = InitRun
    /\ port \in ports
    /\ kms \in [crtc : {[buffer_id |-> 100, x |-> 0, y |-> 0,
                         mode |-> ConnModes[3]]},
                flip_pending : {NoFlip}, events : {<<>>},
                dpms_log : {<<>>}, modes : lists,
                has_dpms : {TRUE}, driver : drivers,
                dumbs : {{}}, maps : {{}}, fbs : {{}}]
    /\ cap = NoCap
    /\ now = 1
    /\ call = [op |-> "init", ret |-> 0, note |-> NoNote]
    /\ hist = [crtc_at_open |-> kms.crtc, restore |-> "none",
               ns_only |-> FALSE, opens |-> 0]
    /\ aborted = FALSE

InitDrmWith(ports, drivers) == InitDrmOn(ports, drivers, {ConnModes})

Drivers == {"vc4", "meson", "other"}

InitDrm == InitDrmWith({NoPort}, Drivers)

\* us_drm_open for the capture device c with the answers io, at most max
\* times.
OpenFor(c, io, max) ==
    /\ ~aborted
    /\ run.fd < 0
    /\ hist.opens < max
    /\ LET w == us_drm_open(World, c, io)
       IN  /\ cap' = IF w.run.fd >= 0 THEN c ELSE NoCap
           /\ Commit(w, "open",
                  [crtc_at_open |-> kms.crtc, restore |-> w.note.restore,
                   ns_only |-> w.ret > 0, opens |-> hist.opens + 1])

\* The open of a caller that streams a capture device or shows a stub.
Open ==
    \E c \in LiveCaps \cup {NoCap}, io \in OpenIO : OpenFor(c, io, MaxOpens)

\* The open of a caller that has no capture device (no signal).
OpenNoCap == \E io \in OpenIO : OpenFor(NoCap, io, MaxOpens)

\* The open of a caller that opens and closes only.
Reopen ==
    \E c \in Caps \cup {NoCap}, io \in OpenIO : OpenFor(c, io, MaxReopens)

Close ==
    /\ ~aborted
    /\ \E io \in CloseIO :
         LET w == us_drm_close(World, io)
         IN  /\ cap' = NoCap
             /\ Commit(w, "close",
                    [hist EXCEPT !.restore = IF w.note.restore = "none"
                                             THEN @ ELSE w.note.restore,
                                 !.ns_only = FALSE])

EnsureNoSignal ==
    /\ Callable
    /\ run.fd >= 0 /\ run.opened > 0
    /\ \E io \in NoSignalIO :
         /\ UNCHANGED cap
         /\ Commit(us_drm_ensure_no_signal(World, now, io),
                   "ensure_no_signal", hist)

WaitForVsync ==
    /\ Callable
    /\ run.fd >= 0
    /\ \E io \in WaitIO :
         /\ UNCHANGED cap
         /\ Commit(us_drm_wait_for_vsync(World, io), "wait_for_vsync",
                   [hist EXCEPT !.ns_only = FALSE])

DpmsPowerOff ==
    /\ Callable
    /\ run.fd >= 0
    /\ \E io \in StatusIO :
         /\ UNCHANGED cap
         /\ Commit(us_drm_dpms_power_off(World, io), "dpms_power_off",
                   [hist EXCEPT !.ns_only = FALSE])

\* The caller shows the stub the display was opened for, or BUSY.
ExposeStub ==
    /\ Callable
    /\ run.fd >= 0 /\ run.opened > 0
    /\ \E stub \in {run.opened, US_DRM_STUB_BUSY}, io \in FlipIO :
         /\ UNCHANGED cap
         /\ Commit(us_drm_expose_stub(World, stub, cap, io), "expose_stub",
                   [hist EXCEPT !.ns_only = FALSE])

ExposeDma ==
    /\ Callable
    /\ run.fd >= 0 /\ run.opened = 0
    /\ \E hw \in HwBuf(cap), io \in FlipIO :
         /\ UNCHANGED cap
         /\ Commit(us_drm_expose_dma(World, hw, io), "expose_dma",
                   [hist EXCEPT !.ns_only = FALSE])

ExposeCentered ==
    /\ Callable
    /\ run.fd >= 0 /\ run.opened = 0
    /\ \E hw \in HwBuf(cap), io \in CenteredIO :
         /\ UNCHANGED cap
         /\ Commit(us_drm_expose_centered(World, hw, io), "expose_centered",
                   [hist EXCEPT !.ns_only = FALSE])

\* The vertical blank completes the pending flip and queues its event.
Vblank ==
    /\ ~aborted
    /\ kms.flip_pending # NoFlip
    /\ Len(kms.events) < MaxEvents
    /\ kms' = [kms EXCEPT !.crtc.buffer_id = kms.flip_pending.fb,
                          !.events = Append(@, FlipEvent(kms.flip_pending)),
                          !.flip_pending = NoFlip]
    /\ call' = [call EXCEPT !.op = "vblank"]
    /\ UNCHANGED <<run, port, cap, now, hist, aborted, center, enc, dec, mpp, libVars>>

\* The monotonic clock advances.  Only us_drm_ensure_no_signal reads it,
\* on a display opened for a stub, so time passes there.
Tick ==
    /\ ~aborted
    /\ run.opened > 0
    /\ run.blank_at_ts # 0
    /\ now < MaxNow
    /\ now' = now + 1
    /\ call' = [call EXCEPT !.op = "tick"]
    /\ UNCHANGED <<run, port, kms, cap, hist, aborted, center, enc, dec, mpp, libVars>>

\* A caller that streams frames or shows stubs.
NextDrm ==
    \/ Open
    \/ Close
    \/ WaitForVsync
    \/ ExposeStub
    \/ ExposeDma
    \/ ExposeCentered
    \/ Vblank

\* A caller without a signal: it keeps the no-signal screen up and may
\* wait for a vsync itself.
NextNoSignal ==
    \/ ExposeStub
    \/ OpenNoCap
    \/ Close
    \/ EnsureNoSignal
    \/ WaitForVsync
    \/ Vblank
    \/ Tick

\* ------------------------------------------------------- sink selection
\* The modes a connector may list: 1920x1080i60 (preferred), 1920x1080p60
\* (preferred), 1920x1080p50, 1280x720p60 and 640x480p59.94 (preferred).
SinkModes ==
    { [ConnModes[1] EXCEPT !.preferred = TRUE],
      ConnModes[2],
      [ConnModes[2] EXCEPT !.htotal = 2640, !.preferred = FALSE],
      [clock |-> 74250, hdisplay |-> 1280, vdisplay |-> 720,
       htotal |-> 1650, vtotal |-> 750, vscan |-> 0,
       interlace |-> FALSE, dblscan |-> FALSE, preferred |-> FALSE],
      [ConnModes[3] EXCEPT !.preferred = TRUE] }

\* The lists of at most MaxModes different modes, in every order.
ModeLists ==
    { l \in UNION { [1..n -> SinkModes] : n \in 0..MaxModes } :
        \A i, j \in 1..Len(l) : i # j => l[i] # l[j] }

\* The capture devices of the sink selection: those of Caps, and the DOS
\* device of the 640x416 special case.
SinkCaps ==
    LiveCaps \cup
    { [width |-> 640, height |-> 416, hz |-> 60, format |-> "YUYV",
       n_bufs |-> CapBufs] }

SinkIO == { GoodOpenIO, [GoodOpenIO EXCEPT !.sink = "no_crtc"] }

\* us_drm_open on a connector with one of the mode lists.
FindSink ==
    \E c \in SinkCaps \cup {NoCap}, io \in SinkIO : OpenFor(c, io, MaxOpens)

NextSink ==
    \/ FindSink
    \/ Close

\* A caller that opens and closes the display and may power it off.
NextOpen ==
    \/ Reopen
    \/ Close
    \/ DpmsPowerOff

\* =========================================================================
\* The centering function on its own
\* =========================================================================
InitCenter ==
    center \in [src_width : 0..MaxDim, src_height : 0..MaxDim,
                dst_width : 1..MaxDim, dst_height : 1..MaxDim,
                by : {"none"}, offset_x : {0}, offset_y : {0}]

CenterIdle ==
    center = [src_width |-> 0, src_height |-> 0, dst_width |-> 1,
              dst_height |-> 1, by |-> "none", offset_x |-> 0,
              offset_y |-> 0]

\* _drm_calculate_center applied to the drawn geometry.
CalculateCenter ==
    /\ center.by = "none"
    /\ LET c == _drm_calculate_center(center.src_width, center.src_height,
                    center.dst_width, center.dst_height)
       IN  center' = [center EXCEPT !.by = "calculate_center",
                                    !.offset_x = c.offset_x,
                                    !.offset_y = c.offset_y]
    /\ UNCHANGED <<run, port, kms, cap, now, call, hist, aborted,
                   enc, dec, mpp, libVars>>

\* The offsets of us_drm_expose_dma's fallback copy for the same geometry.
ExposeDmaCenter ==
    /\ center.by = "none"
    /\ LET c == ExposeDmaOffsets(center.src_width, center.src_height,
                    center.dst_width, center.dst_height)
       IN  center' = [center EXCEPT !.by = "expose_dma",
                                    !.offset_x = c.offset_x,
                                    !.offset_y = c.offset_y]
    /\ UNCHANGED <<run, port, kms, cap, now, call, hist, aborted,
                   enc, dec, mpp, libVars>>

NextCenter ==
    \/ CalculateCenter
    \/ ExposeDmaCenter

\* =========================================================================
\* The MPP codec processors
\* =========================================================================
US_MPP_H264_MAX_RETRY == 30

NoStats ==
    [frames_processed |-> 0, frames_encoded |-> 0, frames_decoded |-> 0,
     processing_errors |-> 0, encode_errors |-> 0, decode_errors |-> 0,
     keyframes_generated |-> 0]

\* The codec configuration: the QP range of an MppEncCfg, or none.
NoCfg == [qp_min |-> 0, qp_max |-> 0]

\* A frame buffer group: none (NULL), the internal group of the create
\* function or the external group of the info-change handshake; buffers is
\* the number of buffers taken from it, of size bytes each; attached: the
\* group was given to the context with MPP_DEC_SET_EXT_BUF_GROUP.
NoGroup == [kind |-> "none", buffers |-> 0, size |-> 0, attached |-> FALSE]

MPP_ALIGN(x, a) == ((x + a - 1) \div a) * a

\* The size of a decoder frame buffer: 4 bytes per pixel of the 16-aligned
\* geometry.
JpegBufSize(width, height) == MPP_ALIGN(width, 16) * MPP_ALIGN(height, 16) * 4

\* The number of frame buffers the info-change handshake asks for.
InfoChangeBuffers == 24

\* The size of an NV12 (MPP_FMT_YUV420SP) frame buffer.
_us_mpp_calc_frame_size(width, height) ==
    (MPP_ALIGN(MPP_ALIGN(width, 16), 64)
     * MPP_ALIGN(MPP_ALIGN(height, 16), 64) * 3) \div 2

\* A processor after _us_mpp_processor_init_base and its create function
\* (calloc: every field the create function does not set is zero).
\* frm_buf and pkt_buf are the sizes of the buffers the fields point to (0:
\* NULL); held names the buffers and groups got from the codec library for
\* the processor and not put back yet.
\* enc_cfg is the MppEncCfg object, codec_cfg what MPP_ENC_SET_CFG applied;
\* freed: us_mpp_processor_destroy has released the object; steps: what
\* us_mpp_processor_destroy has done to the processor so far, in order.
NewProcessor ==
    [initialized |-> TRUE, should_stop |-> FALSE, processing |-> FALSE,
     consecutive_errors |-> 0, frame_number |-> 0, stats |-> NoStats,
     mutex |-> "unlocked", freed |-> FALSE,
     qp_min |-> 0, qp_max |-> 0, enc_cfg |-> NoCfg, codec_cfg |-> NoCfg,
     steps |-> <<>>,
     width |-> 0, height |-> 0, hor_stride |-> 0, ver_stride |-> 0,
     frm_grp |-> NoGroup, frm_buf |-> 0, pkt_buf |-> 0, held |-> {}]

\* us_mpp_h264_encoder_create: the geometry, the default QP range,
\* configured and applied, and an internal buffer group with the input
\* buffer and the packet buffer, each of the size of one NV12 frame.
us_mpp_h264_encoder_create(width, height) ==
    [NewProcessor EXCEPT
         !.width = width, !.height = height,
         !.hor_stride = MPP_ALIGN(width, 16),
         !.ver_stride = MPP_ALIGN(height, 16),
         !.qp_min = 16, !.qp_max = 40,
         !.enc_cfg = [qp_min |-> 16, qp_max |-> 40],
         !.codec_cfg = [qp_min |-> 16, qp_max |-> 40],
         !.frm_grp = [kind |-> "internal", buffers |-> 2,
                      size |-> _us_mpp_calc_frame_size(width, height),
                      attached |-> FALSE],
         !.frm_buf = _us_mpp_calc_frame_size(width, height),
         !.pkt_buf = _us_mpp_calc_frame_size(width, height),
         !.held = {"frm_grp", "frm_buf", "pkt_buf"}]

\* The encoder of the codec scenarios.
NewEncoder == us_mpp_h264_encoder_create(2, 2)

\* us_mpp_mjpeg_decoder_create: the maximal geometry, and an internal buffer
\* group with the one buffer of the pre-allocated frame.
us_mpp_mjpeg_decoder_create(max_width, max_height) ==
    [NewProcessor EXCEPT
         !.width = max_width, !.height = max_height,
         !.frm_grp = [kind |-> "internal", buffers |-> 1,
                      size |-> JpegBufSize(max_width, max_height),
                      attached |-> FALSE],
         !.frm_buf = JpegBufSize(max_width, max_height),
         !.held = {"frm_grp", "frm_buf"}]

\* The decoder of the codec scenarios, and the info-change frame the codec
\* answers a packet with (the geometry of the picture, 16-aligned strides).
NewDecoder == us_mpp_mjpeg_decoder_create(2, 2)

InfoChangeFrame(frame) ==
    [width |-> frame.width, height |-> frame.height,
     hor_stride |-> MPP_ALIGN(frame.width, 16),
     ver_stride |-> MPP_ALIGN(frame.height, 16)]

pthread_mutex_lock(proc) == [proc EXCEPT !.mutex = "locked"]

pthread_mutex_unlock(proc) == [proc EXCEPT !.mutex = "unlocked"]

\* What a codec call returns: the processor after it, its result, whether
\* it called the codec's put function (encode_put_frame, decode_put_packet),
\* and what happened to the caller's destination frame (out).  polls and
\* ret are the number of encode_get_packet calls the call made and what the
\* last of them answered: "MPP_ERR_TIMEOUT", "MPP_NOK" (another error),
\* "packet" (MPP_OK with a packet) or "MPP_OK" (MPP_OK without one).
Returned(proc, result, put, out) ==
    [proc |-> proc, result |-> result, put |-> put, out |-> out,
     polls |-> 0, ret |-> "none", ack |-> FALSE, copied |-> 0]

Polled(r, polls, ret) == [r EXCEPT !.polls = polls, !.ret = ret]

\* A decode call whose decode_get_frame answered an info-change frame; ack:
\* the call sent MPP_DEC_SET_INFO_CHANGE_READY and the codec accepted it.
InfoChanged(r, ack) == [r EXCEPT !.ret = "info_change", !.ack = ack]

us_mpp_is_format_supported_for_decode(format) == format \in {"MJPEG", "JPEG"}

us_mpp_is_format_supported_for_encode(format) == format = "NV12"

_us_mpp_update_stats(proc, success, is_encode) ==
    LET p1 == [proc EXCEPT !.stats.frames_processed = @ + 1]
    IN  IF success
        THEN [p1 EXCEPT
                !.stats.frames_encoded = IF is_encode THEN @ + 1 ELSE @,
                !.stats.frames_decoded = IF is_encode THEN @ ELSE @ + 1,
                !.consecutive_errors = 0]
        ELSE [p1 EXCEPT
                !.stats.processing_errors = @ + 1,
                !.stats.encode_errors = IF is_encode THEN @ + 1 ELSE @,
                !.stats.decode_errors = IF is_encode THEN @ ELSE @ + 1,
                !.consecutive_errors = @ + 1]

\* _us_mpp_h264_extract_output_packet: pkt is "packet", "intra" (a packet
\* flagged KEY_OUTPUT_INTRA) or "empty_packet" (no data or length 0).
_us_mpp_h264_extract_output_packet(proc, pkt) ==
    IF pkt = "empty_packet" THEN Returned(proc, "ENCODE", TRUE, "untouched")
    ELSE Returned(IF pkt = "intra"
                  THEN [proc EXCEPT !.stats.keyframes_generated = @ + 1]
                  ELSE proc,
                  "OK", TRUE, "h264")

\* A variant of the loop below in which a timeout ends the call with OK on
\* the first poll only, and with Timeout on a later poll.
RECURSIVE EncodeLoopLateTimeoutFails(_, _, _, _)
EncodeLoopLateTimeoutFails(proc, retry_count, n_null, last) ==
    IF n_null = 0
    THEN IF last = "timeout"
         THEN Polled(Returned(proc,
                              IF retry_count = 0 THEN "OK" ELSE "TIMEOUT",
                              TRUE, "untouched"),
                     retry_count + 1, "MPP_ERR_TIMEOUT")
         ELSE IF last = "err"
         THEN Polled(Returned(proc, "ENCODE", TRUE, "untouched"),
                     retry_count + 1, "MPP_NOK")
         ELSE Polled(_us_mpp_h264_extract_output_packet(proc, last),
                     retry_count + 1, "packet")
    ELSE IF retry_count + 1 >= US_MPP_H264_MAX_RETRY
        THEN Polled(Returned(proc, "TIMEOUT", TRUE, "untouched"),
                    retry_count + 1, "MPP_OK")
    ELSE EncodeLoopLateTimeoutFails(proc, retry_count + 1, n_null - 1, last)

\* A variant of the loop below that gives up one poll later.
RECURSIVE EncodeLoopOneMorePoll(_, _, _, _)
EncodeLoopOneMorePoll(proc, retry_count, n_null, last) ==
    IF n_null = 0
    THEN IF last = "timeout"
         THEN Polled(Returned(proc, "OK", TRUE, "untouched"),
                     retry_count + 1, "MPP_ERR_TIMEOUT")
         ELSE IF last = "err"
         THEN Polled(Returned(proc, "ENCODE", TRUE, "untouched"),
                     retry_count + 1, "MPP_NOK")
         ELSE Polled(_us_mpp_h264_extract_output_packet(proc, last),
                     retry_count + 1, "packet")
    ELSE IF retry_count + 1 > US_MPP_H264_MAX_RETRY
        THEN Polled(Returned(proc, "TIMEOUT", TRUE, "untouched"),
                    retry_count + 1, "MPP_OK")
    ELSE EncodeLoopOneMorePoll(proc, retry_count + 1, n_null - 1, last)

\* The do..while loop of us_mpp_h264_encoder_encode: n_null polls answer
\* MPP_OK without a packet, then the codec answers last: "timeout", "err"
\* or one of the packets above.
RECURSIVE EncodeGetPacketLoop(_, _, _, _)
EncodeGetPacketLoop(proc, retry_count, n_null, last) ==
    IF n_null = 0
    THEN IF last = "timeout"
         THEN Polled(Returned(proc, "OK", TRUE, "untouched"),
                     retry_count + 1, "MPP_ERR_TIMEOUT")
         ELSE IF last = "err"
         THEN Polled(Returned(proc, "ENCODE", TRUE, "untouched"),
                     retry_count + 1, "MPP_NOK")
         ELSE Polled(_us_mpp_h264_extract_output_packet(proc, last),
                     retry_count + 1, "packet")
    ELSE IF retry_count + 1 >= US_MPP_H264_MAX_RETRY
        THEN Polled(Returned(proc, "TIMEOUT", TRUE, "untouched"),
                    retry_count + 1, "MPP_OK")
    ELSE EncodeGetPacketLoop(proc, retry_count + 1, n_null - 1, last)

\* The memcpy of the input frame into the input buffer; a copy that runs
\* over the end of the buffer goes unnoticed or ends the process
\* (io.overrun).
Copied(r, frame) == [r EXCEPT !.copied = frame.used]

\* us_mpp_h264_encoder_encode from the copy of the input on.
EncodeLocked(p1, frame, io) ==
    IF frame.used > p1.frm_buf /\ io.overrun = "SIGSEGV"
    THEN Copied(Returned(p1, "SIGSEGV", FALSE, "untouched"), frame)
    ELSE
    LET r == IF ~io.put_ok THEN Returned(p1, "ENCODE", TRUE, "untouched")
             ELSE EncodeGetPacketLoop(p1, 0, io.n_null, io.last)
        p2 == [r.proc EXCEPT !.processing = FALSE, !.frame_number = @ + 1]
        p3 == _us_mpp_update_stats(p2, r.result = "OK", TRUE)
    IN  Copied(Polled(Returned(pthread_mutex_unlock(p3), r.result, r.put,
                               r.out),
                      r.polls, r.ret), frame)

\* us_mpp_h264_encoder_encode from pthread_mutex_lock on.
EncodeFromLock(proc, frame, io) ==
    IF pthread_mutex_lock(proc).should_stop
    THEN Returned(pthread_mutex_unlock(pthread_mutex_lock(proc)),
                  "NOT_INITIALIZED", FALSE, "untouched")
    ELSE EncodeLocked([pthread_mutex_lock(proc) EXCEPT !.processing = TRUE],
                      frame, io)

\* us_mpp_h264_encoder_encode with its should_stop test removed.
EncodeIgnoringStop(proc, frame, io) ==
    IF frame.null THEN Returned(proc, "INVALID_PARAM", FALSE, "untouched")
    ELSE IF ~proc.initialized
        THEN Returned(proc, "NOT_INITIALIZED", FALSE, "untouched")
    ELSE IF ~us_mpp_is_format_supported_for_encode(frame.format)
        THEN Returned(proc, "FORMAT_UNSUPPORTED", FALSE, "untouched")
    ELSE IF frame.used = 0
        THEN Returned(proc, "INVALID_PARAM", FALSE, "untouched")
    ELSE
    EncodeLocked([pthread_mutex_lock(proc) EXCEPT !.processing = TRUE],
                 frame, io)

\* frame is the NV12 input; io.put_ok: encode_put_frame accepted it
\* (_us_mpp_h264_setup_input_frame fails on NULL arguments only).
us_mpp_h264_encoder_encode(proc, frame, io) ==
    IF frame.null THEN Returned(proc, "INVALID_PARAM", FALSE, "untouched")
    ELSE IF ~proc.initialized
        THEN Returned(proc, "NOT_INITIALIZED", FALSE, "untouched")
    ELSE IF ~us_mpp_is_format_supported_for_encode(frame.format)
        THEN Returned(proc, "FORMAT_UNSUPPORTED", FALSE, "untouched")
    ELSE IF frame.used = 0
        THEN Returned(proc, "INVALID_PARAM", FALSE, "untouched")
    ELSE EncodeFromLock(proc, frame, io)

\* What the codec's calls of the info-change handshake may answer.
InfoChangeOutcomes ==
    {"info_change", "info_change_group_failed", "info_change_attach_failed",
     "info_change_ready_failed"}

\* What the body of a decode call hands to its cleanup: the processor, the
\* result, whether the packet was submitted, whether decode_get_frame
\* answered an info-change frame (info) and whether it was acknowledged.
Decoded(proc, result, put) ==
    [proc |-> proc, result |-> result, put |-> put, info |-> FALSE,
     ack |-> FALSE]

\* _us_mpp_mjpeg_process_info_change on an info-change frame.  io.codec tells
\* which of the codec's calls fails, if the handshake makes it: the creation
\* of the external group, its attachment, the acknowledgement; io.buffers is
\* the number of mpp_buffer_get calls that succeed before the first failure.
_us_mpp_mjpeg_process_info_change(decoder, frame, io) ==
    With([decoder EXCEPT !.width = frame.width, !.height = frame.height,
                         !.hor_stride = frame.hor_stride,
                         !.ver_stride = frame.ver_stride],
         LAMBDA d :
    IF d.frm_grp = NoGroup /\ io.codec = "info_change_group_failed"
    THEN [proc |-> d, result |-> "INIT", ack |-> FALSE]
    ELSE
    With(IF d.frm_grp = NoGroup
         THEN [d EXCEPT !.frm_grp =
                   [kind |-> "external", buffers |-> io.buffers,
                    size |-> JpegBufSize(d.width, d.height),
                    attached |-> io.codec # "info_change_attach_failed"]]
         ELSE d,
         LAMBDA g :
    IF decoder.frm_grp = NoGroup /\ io.codec = "info_change_attach_failed"
    THEN [proc |-> g, result |-> "INIT", ack |-> FALSE]
    ELSE IF io.codec = "info_change_ready_failed"
        THEN [proc |-> g, result |-> "DECODE", ack |-> FALSE]
    ELSE [proc |-> g, result |-> "OK", ack |-> TRUE]))

\* The info-change branch of the decode call: a handshake that succeeds
\* makes the call return INFO_CHANGE, one that fails its own error.
DecodeInfoChange(proc, frame, io) ==
    With(_us_mpp_mjpeg_process_info_change(proc, InfoChangeFrame(frame), io),
         LAMBDA i :
        [proc |-> i.proc,
         result |-> IF i.result # "OK" THEN i.result ELSE "INFO_CHANGE",
         put |-> TRUE, info |-> TRUE, ack |-> i.ack])

\* The body of us_mpp_mjpeg_decoder_decode under the lock: where it ends.
\* io.codec is "ok" or the step of the codec that fails; the packet is
\* submitted (decode_put_packet is called) once the input buffer is there.
DecodeLocked(proc, frame, io) ==
    IF frame.used < 2 THEN Decoded(proc, "INVALID_PARAM", FALSE)
    ELSE IF ~frame.soi THEN Decoded(proc, "DECODE", FALSE)
    ELSE IF io.codec = "no_buffer" THEN Decoded(proc, "MEMORY", FALSE)
    ELSE IF io.codec = "put_failed" THEN Decoded(proc, "DECODE", TRUE)
    ELSE IF io.codec = "get_timeout" THEN Decoded(proc, "TIMEOUT", TRUE)
    ELSE IF io.codec = "get_failed" THEN Decoded(proc, "DECODE", TRUE)
    ELSE IF io.codec \in InfoChangeOutcomes THEN DecodeInfoChange(proc, frame, io)
    ELSE IF io.codec = "errinfo" THEN Decoded(proc, "DECODE", TRUE)
    ELSE IF io.codec = "eos" THEN Decoded(proc, "EOS", TRUE)
    ELSE IF io.codec = "copy_failed" THEN Decoded(proc, "DECODE", TRUE)
    ELSE Decoded(proc, "OK", TRUE)

\* What the decode call returns after its cleanup.
DecodeCleanup(r) ==
    With(Returned(pthread_mutex_unlock(
                      [r.proc EXCEPT !.frame_number = @ + 1]),
                  r.result, r.put,
                  IF r.result = "OK" THEN "nv12" ELSE "untouched"),
         LAMBDA ret : IF r.info THEN InfoChanged(ret, r.ack) ELSE ret)

\* us_mpp_mjpeg_decoder_decode without the test of the JPEG magic bytes.
DecodeWithoutSoiCheck(proc, frame, io) ==
    IF frame.null THEN Returned(proc, "INVALID_PARAM", FALSE, "untouched")
    ELSE IF ~proc.initialized
        THEN Returned(proc, "NOT_INITIALIZED", FALSE, "untouched")
    ELSE IF ~us_mpp_is_format_supported_for_decode(frame.format)
        THEN Returned(proc, "FORMAT_UNSUPPORTED", FALSE, "untouched")
    ELSE IF frame.used = 0
        THEN Returned(proc, "INVALID_PARAM", FALSE, "untouched")
    ELSE IF pthread_mutex_lock(proc).should_stop
        THEN Returned(pthread_mutex_unlock(pthread_mutex_lock(proc)),
                      "NOT_INITIALIZED", FALSE, "untouched")
    ELSE DecodeCleanup(DecodeLocked(
             [pthread_mutex_lock(proc) EXCEPT !.processing = TRUE],
             [frame EXCEPT !.soi = TRUE], io))

\* frame is the MJPEG input (soi: it starts with FF D8).  The destination
\* is written by _us_mpp_mjpeg_copy_frame_data only, on success.
us_mpp_mjpeg_decoder_decode(proc, frame, io) ==
    IF frame.null THEN Returned(proc, "INVALID_PARAM", FALSE, "untouched")
    ELSE IF ~proc.initialized
        THEN Returned(proc, "NOT_INITIALIZED", FALSE, "untouched")
    ELSE IF ~us_mpp_is_format_supported_for_decode(frame.format)
        THEN Returned(proc, "FORMAT_UNSUPPORTED", FALSE, "untouched")
    ELSE IF frame.used = 0
        THEN Returned(proc, "INVALID_PARAM", FALSE, "untouched")
    ELSE IF pthread_mutex_lock(proc).should_stop
        THEN Returned(pthread_mutex_unlock(pthread_mutex_lock(proc)),
                      "NOT_INITIALIZED", FALSE, "untouched")
    ELSE DecodeCleanup(DecodeLocked(
             [pthread_mutex_lock(proc) EXCEPT !.processing = TRUE],
             frame, io))

\* us_mpp_processor_reset; reset_ok: mpi->reset succeeded.
us_mpp_processor_reset(proc, reset_ok) ==
    IF ~proc.initialized
    THEN Returned(proc, "NOT_INITIALIZED", FALSE, "untouched")
    ELSE IF ~reset_ok THEN Returned(proc, "INIT", FALSE, "untouched")
    ELSE Returned([proc EXCEPT !.stats = NoStats, !.consecutive_errors = 0,
                               !.frame_number = 0],
                  "OK", FALSE, "untouched")

\* The statements of us_mpp_processor_destroy between its lock and its
\* unlock, in the order of the code: the context reset, the releases of the
\* buffer manager, the encoder configuration, the packet, the frame, the
\* frame buffer and the two buffer groups, then mpp_destroy and the store to
\* initialized.
DestroyReleases ==
    <<"buffer_mgr", "enc_cfg", "packet", "frame", "frm_buf", "frm_grp",
      "pkt_grp">>

\* The buffers and groups us_mpp_processor_destroy puts back: the frame
\* buffer and the frame group, each if its field is not NULL (the packet
\* group is NULL after both create functions).
DestroyPuts(proc) ==
    (IF proc.frm_buf # 0 THEN {"frm_buf"} ELSE {})
    \cup (IF proc.frm_grp # NoGroup THEN {"frm_grp"} ELSE {})

DestroyUnderLock ==
    <<"lock", "reset">> \o DestroyReleases \o <<"mpp_destroy", "initialized">>

\* us_mpp_processor_destroy that releases the buffers, the packet, the frame
\* and the groups before it resets the context.
DestroyReleasingBeforeReset(proc) ==
    IF ~proc.should_stop
    THEN [proc EXCEPT !.should_stop = TRUE, !.steps = <<"should_stop">>]
    ELSE IF proc.initialized
        THEN pthread_mutex_unlock(
                 [pthread_mutex_lock(proc) EXCEPT
                      !.enc_cfg = NoCfg, !.codec_cfg = NoCfg,
                      !.frm_grp = NoGroup, !.frm_buf = 0,
                      !.held = @ \ DestroyPuts(proc),
                      !.initialized = FALSE,
                      !.steps = @ \o <<"lock">> \o DestroyReleases
                                  \o <<"reset", "mpp_destroy", "initialized",
                                        "unlock">>])
    ELSE [proc EXCEPT !.freed = TRUE, !.steps = Append(@, "free")]

\* us_mpp_processor_destroy, one stage per step of the destroying thread:
\* it raises should_stop, then (under the lock) resets the context, releases
\* the codec's objects, destroys the context and clears initialized, then
\* frees the object.  The processor is one that its create function
\* returned: ctx, mpi and the mutex exist.
us_mpp_processor_destroy(proc) ==
    IF ~proc.should_stop
    THEN [proc EXCEPT !.should_stop = TRUE, !.steps = <<"should_stop">>]
    ELSE IF proc.initialized
        THEN pthread_mutex_unlock(
                 [pthread_mutex_lock(proc) EXCEPT
                      !.enc_cfg = NoCfg, !.codec_cfg = NoCfg,
                      !.frm_grp = NoGroup, !.frm_buf = 0,
                      !.held = @ \ DestroyPuts(proc),
                      !.initialized = FALSE,
                      !.steps = @ \o DestroyUnderLock \o <<"unlock">>])
    ELSE [proc EXCEPT !.freed = TRUE, !.steps = Append(@, "free")]

\* us_mpp_processor_destroy as a create function calls it, on a processor
\* no other thread has seen: all its steps at once.
DestroyAtOnce(proc) ==
    [proc EXCEPT
         !.should_stop = TRUE, !.enc_cfg = NoCfg, !.codec_cfg = NoCfg,
         !.frm_grp = NoGroup, !.frm_buf = 0,
         !.held = @ \ DestroyPuts(proc),
         !.initialized = FALSE, !.freed = TRUE,
         !.steps = <<"should_stop">> \o DestroyUnderLock
                   \o <<"unlock", "free">>]

\* No processor: the pointer a failed create function leaves.
Unmade == [NewProcessor EXCEPT !.initialized = FALSE, !.freed = TRUE]

\* The steps of the create functions that can fail, in their order.
EncoderCreateSteps ==
    <<"base", "setup", "configure", "frm_grp", "frm_buf", "pkt_buf">>

DecoderCreateSteps == <<"base", "setup", "frm_grp", "frm_buf">>

\* Step is made before the step fail fails ("none": every step is made).
MadeBefore(steps, step, fail) ==
    \E i \in 1..Len(steps) :
        /\ steps[i] = step
        /\ \A j \in 1..i : steps[j] # fail

\* The processor a create function has built, out of the finished one
\* made, when its step fail fails.
PartlyMade(made, steps, fail) ==
    [made EXCEPT
         !.initialized = FALSE,
         !.enc_cfg = IF MadeBefore(steps, "setup", fail) THEN @ ELSE NoCfg,
         !.codec_cfg = IF MadeBefore(steps, "configure", fail)
                       THEN @ ELSE NoCfg,
         !.frm_grp = IF MadeBefore(steps, "frm_grp", fail)
                     THEN [@ EXCEPT !.buffers =
                              Cardinality({b \in {"frm_buf", "pkt_buf"} :
                                              MadeBefore(steps, b, fail)})]
                     ELSE NoGroup,
         !.frm_buf = IF MadeBefore(steps, "frm_buf", fail) THEN @ ELSE 0,
         !.pkt_buf = IF MadeBefore(steps, "pkt_buf", fail) THEN @ ELSE 0,
         !.held = {h \in @ : MadeBefore(steps, h, fail)}]

\* A create function whose step fail fails: the base initialisation cleans
\* up after itself and the record is freed, a later step makes the function
\* call us_mpp_processor_destroy.
Created(made, steps, fail) ==
    IF fail = "none" THEN Returned(made, "OK", FALSE, "untouched")
    ELSE IF fail = "base" THEN Returned(Unmade, "INIT", FALSE, "untouched")
    ELSE Returned(DestroyAtOnce(PartlyMade(made, steps, fail)),
                  IF fail \in {"setup", "configure"} THEN "INIT"
                  ELSE "MEMORY",
                  FALSE, "untouched")

\* us_mpp_h264_encoder_create(&encoder, width, height, ...), the other
\* arguments being valid.
EncoderCreate(width, height, fail) ==
    IF width = 0 \/ height = 0
    THEN Returned(Unmade, "INVALID_PARAM", FALSE, "untouched")
    ELSE Created(us_mpp_h264_encoder_create(width, height),
                 EncoderCreateSteps, fail)

\* us_mpp_mjpeg_decoder_create(&decoder, max_width, max_height).
DecoderCreate(max_width, max_height, fail) ==
    Created(us_mpp_mjpeg_decoder_create(max_width, max_height),
            DecoderCreateSteps, fail)

\* us_mpp_h264_encoder_set_qp_range that accepts every ordered pair.
SetQpRangeUnbounded(proc, qp_min, qp_max, io) ==
    IF qp_min > qp_max
    THEN Returned(proc, "INVALID_PARAM", FALSE, "untouched")
    ELSE IF ~proc.initialized
        THEN Returned([proc EXCEPT !.qp_min = qp_min, !.qp_max = qp_max],
                      "OK", FALSE, "untouched")
    ELSE
    LET p1 == [pthread_mutex_lock(proc) EXCEPT !.qp_min = qp_min,
                                               !.qp_max = qp_max]
        p2 == [p1 EXCEPT !.enc_cfg = [qp_min |-> qp_min, qp_max |-> qp_max]]
    IN  IF ~io.control_ok
        THEN Returned(pthread_mutex_unlock(p2), "INIT", FALSE, "untouched")
        ELSE Returned(pthread_mutex_unlock(
                          [p2 EXCEPT !.codec_cfg = p2.enc_cfg]),
                      "OK", FALSE, "untouched")

\* us_mpp_h264_encoder_set_qp_range; io.control_ok: MPP_ENC_SET_CFG
\* succeeded (enc_cfg is not NULL on an initialized encoder).
us_mpp_h264_encoder_set_qp_range(proc, qp_min, qp_max, io) ==
    IF qp_min > qp_max \/ qp_max > 51
    THEN Returned(proc, "INVALID_PARAM", FALSE, "untouched")
    ELSE IF ~proc.initialized
        THEN Returned([proc EXCEPT !.qp_min = qp_min, !.qp_max = qp_max],
                      "OK", FALSE, "untouched")
    ELSE
    LET p1 == [pthread_mutex_lock(proc) EXCEPT !.qp_min = qp_min,
                                               !.qp_max = qp_max]
        p2 == [p1 EXCEPT !.enc_cfg = [qp_min |-> qp_min, qp_max |-> qp_max]]
    IN  IF ~io.control_ok
        THEN Returned(pthread_mutex_unlock(p2), "INIT", FALSE, "untouched")
        ELSE Returned(pthread_mutex_unlock(
                          [p2 EXCEPT !.codec_cfg = p2.enc_cfg]),
                      "OK", FALSE, "untouched")

Nv12Frames ==
    [null : BOOLEAN, format : {"NV12", "YUYV"}, used : {0, 4}]

\* A frame of fewer than 2 bytes does not start with FF D8.
MjpegFrames ==
    { f \in [null : BOOLEAN, format : {"MJPEG", "NV12"}, used : {0, 1, 4},
             soi : BOOLEAN, width : {2}, height : {2}] :
        f.soi => f.used >= 2 }

EncodeIO ==
    [put_ok : BOOLEAN, n_null : {0, 1, US_MPP_H264_MAX_RETRY},
     last : {"timeout", "err", "packet", "intra", "empty_packet"},
     overrun : {"unnoticed"}]

DecodeIO ==
    { d \in [codec : {"ok", "no_buffer", "put_failed", "get_timeout",
                      "get_failed", "errinfo", "eos", "copy_failed"}
                         \cup InfoChangeOutcomes,
             buffers : {0, InfoChangeBuffers}] :
        d.buffers = 0 => d.codec = "info_change" }

\* The frames a call returns on before it takes the lock: the codec is not
\* called for them, so that one answer of the codec stands for all.
EncodeRejects(frame) ==
    \/ frame.null
    \/ ~us_mpp_is_format_supported_for_encode(frame.format)
    \/ frame.used = 0

DecodeRejects(frame) ==
    \/ frame.null
    \/ ~us_mpp_is_format_supported_for_decode(frame.format)
    \/ frame.used = 0

EncoderUnused ==
    [put_ok |-> TRUE, n_null |-> 0, last |-> "packet", overrun |-> "unnoticed"]

CodecUnused == [codec |-> "ok", buffers |-> InfoChangeBuffers]

\* The QP values drawn: the ends of the range, the default, one too large.
QpValues == {0, 16, 51, 52}

QpIO == [control_ok : BOOLEAN]

NoArg == "none"

\* The record of the last codec call: its argument, and what it returned.
CodecCall(op, arg, r) ==
    [op |-> op, arg |-> arg, result |-> r.result, put |-> r.put,
     out |-> r.out, polls |-> r.polls, ret |-> r.ret, ack |-> r.ack,
     copied |-> r.copied]

\* No call is inside us_mpp_h264_encoder_encode; touched_freed: a call has
\* read or written the record after us_mpp_processor_destroy freed it.
NoWaiter ==
    [pc |-> "idle", frame |-> NoArg, io |-> NoArg, touched_freed |-> FALSE]

InitMpp ==
    /\ waiter = NoWaiter
    /\ enc = NewEncoder
    /\ dec = NewDecoder
    /\ mpp = CodecCall("create", NoArg,
                       Returned(NewProcessor, "OK", FALSE, "untouched"))

\* The process has not been ended by a signal.
Running == mpp.result # "SIGSEGV"

Encode ==
    /\ ~enc.freed
    /\ enc.frame_number < MaxFrames
    /\ enc.stats.frames_processed < MaxFrames
    /\ \E frame \in Nv12Frames :
       \E io \in IF EncodeRejects(frame) THEN {EncoderUnused} ELSE EncodeIO :
         LET r == us_mpp_h264_encoder_encode(enc, frame, io)
         IN  /\ enc' = r.proc
             /\ mpp' = CodecCall("encode", frame, r)
    /\ UNCHANGED <<run, port, kms, cap, now, call, hist, aborted, center, dec, libVars>>

Decode ==
    /\ ~dec.freed
    /\ dec.frame_number < MaxFrames
    /\ dec.stats.frames_processed < MaxFrames
    /\ \E frame \in MjpegFrames :
       \E io \in IF DecodeRejects(frame) THEN {CodecUnused} ELSE DecodeIO :
         LET r == us_mpp_mjpeg_decoder_decode(dec, frame, io)
         IN  /\ dec' = r.proc
             /\ mpp' = CodecCall("decode", frame, r)
    /\ UNCHANGED <<run, port, kms, cap, now, call, hist, aborted, center, enc, libVars>>

ResetEncoder ==
    /\ ~enc.freed
    /\ \E reset_ok \in BOOLEAN :
         LET r == us_mpp_processor_reset(enc, reset_ok)
         IN  /\ enc' = r.proc
             /\ mpp' = CodecCall("reset_encoder", NoArg, r)
    /\ UNCHANGED <<run, port, kms, cap, now, call, hist, aborted, center, dec, libVars>>

ResetDecoder ==
    /\ ~dec.freed
    /\ \E reset_ok \in BOOLEAN :
         LET r == us_mpp_processor_reset(dec, reset_ok)
         IN  /\ dec' = r.proc
             /\ mpp' = CodecCall("reset_decoder", NoArg, r)
    /\ UNCHANGED <<run, port, kms, cap, now, call, hist, aborted, center, enc, libVars>>

\* A step of the thread that destroys the encoder.
DestroyEncoder ==
    /\ Running
    /\ ~enc.freed
    /\ enc' = us_mpp_processor_destroy(enc)
    /\ mpp' = CodecCall("destroy_encoder", NoArg,
                        Returned(enc, "OK", FALSE, "untouched"))
    /\ UNCHANGED <<run, port, kms, cap, now, call, hist, aborted, center, dec, libVars>>

\* A step of the thread that destroys the decoder.
DestroyDecoder ==
    /\ Running
    /\ ~dec.freed
    /\ dec' = us_mpp_processor_destroy(dec)
    /\ mpp' = CodecCall("destroy_decoder", NoArg,
                        Returned(dec, "OK", FALSE, "untouched"))
    /\ UNCHANGED <<run, port, kms, cap, now, call, hist, aborted, center, enc, libVars>>

SetQpRange ==
    /\ ~enc.freed
    /\ \E qp_min \in QpValues, qp_max \in QpValues, io \in QpIO :
         LET r == us_mpp_h264_encoder_set_qp_range(enc, qp_min, qp_max, io)
         IN  /\ enc' = r.proc
             /\ mpp' = CodecCall("set_qp_range",
                                 [qp_min |-> qp_min, qp_max |-> qp_max], r)
    /\ UNCHANGED <<run, port, kms, cap, now, call, hist, aborted, center, dec, libVars>>

\* The geometries the processors are created with.
CreateDims == {0, 2, 65}

CreateEncoder ==
    /\ Running
    /\ enc.freed
    /\ \E width \in CreateDims, height \in {2},
          fail \in {"none"} \cup {EncoderCreateSteps[i] : i \in 1..Len(EncoderCreateSteps)} :
         LET r == EncoderCreate(width, height, fail)
         IN  /\ enc' = r.proc
             /\ mpp' = CodecCall("create_encoder",
                                 [width |-> width, height |-> height,
                                  fail |-> fail], r)
    /\ UNCHANGED <<run, port, kms, cap, now, call, hist, aborted, center, dec, libVars>>

CreateDecoder ==
    /\ Running
    /\ dec.freed
    /\ \E max_width \in CreateDims \ {0}, max_height \in {2},
          fail \in {"none"} \cup {DecoderCreateSteps[i] : i \in 1..Len(DecoderCreateSteps)} :
         LET r == DecoderCreate(max_width, max_height, fail)
         IN  /\ dec' = r.proc
             /\ mpp' = CodecCall("create_decoder",
                                 [width |-> max_width, height |-> max_height,
                                  fail |-> fail], r)
    /\ UNCHANGED <<run, port, kms, cap, now, call, hist, aborted, center, enc, libVars>>

\* NV12 frames of every size around the size of the smallest input buffer.
SizedFrames ==
    [null : {FALSE}, format : {"NV12"},
     used : {4, _us_mpp_calc_frame_size(2, 2),
             _us_mpp_calc_frame_size(2, 2) + 1}]

SizedIO ==
    [put_ok : {TRUE}, n_null : {0}, last : {"timeout", "packet"},
     overrun : {"unnoticed", "SIGSEGV"}]

\* us_mpp_h264_encoder_encode for a frame of any size.
EncodeSized ==
    /\ Running
    /\ ~enc.freed
    /\ enc.frame_number < MaxFrames
    /\ \E frame \in SizedFrames, io \in SizedIO :
         LET r == us_mpp_h264_encoder_encode(enc, frame, io)
         IN  /\ enc' = r.proc
             /\ mpp' = CodecCall("encode", frame, r)
    /\ UNCHANGED <<run, port, kms, cap, now, call, hist, aborted, center, dec, libVars>>

\* The answers of the codec to a call that waited for the lock.
WaiterIO == {e \in EncodeIO : e.n_null = 0 /\ e.put_ok}

\* A thread enters us_mpp_h264_encoder_encode while another may be inside
\* us_mpp_processor_destroy: the checks before the lock either end the call
\* or leave it at pthread_mutex_lock.
EncodeEnter ==
    /\ Running
    /\ waiter.pc = "idle"
    /\ ~enc.freed
    /\ enc.frame_number < MaxFrames
    /\ \E frame \in Nv12Frames :
       \E io \in IF EncodeRejects(frame) THEN {EncoderUnused} ELSE WaiterIO :
         IF EncodeRejects(frame) \/ ~enc.initialized
         THEN LET r == us_mpp_h264_encoder_encode(enc, frame, io)
              IN  /\ enc' = r.proc
                  /\ mpp' = CodecCall("encode", frame, r)
                  /\ UNCHANGED waiter
         ELSE /\ waiter' = [waiter EXCEPT !.pc = "lock", !.frame = frame,
                                          !.io = io]
              /\ UNCHANGED <<enc, mpp>>
    /\ UNCHANGED <<run, port, kms, cap, now, call, hist, aborted, center, dec,
                   tc, img, jpg, thr>>

\* The waiting call gets the lock and runs to its return.  On a record that
\* has been freed the lock, the read of should_stop and everything after
\* them work on freed memory: the call is ended by a signal, or finds the
\* old contents and goes on as on the record before the free.
EncodeTakeLock ==
    /\ Running
    /\ waiter.pc = "lock"
    /\ enc.mutex = "unlocked"
    /\ \E outcome \in IF enc.freed THEN {"SIGSEGV", "stale"} ELSE {"live"} :
         LET r == IF outcome = "SIGSEGV"
                  THEN Returned(enc, "SIGSEGV", FALSE, "untouched")
                  ELSE EncodeFromLock(enc, waiter.frame, waiter.io)
         IN  /\ enc' = r.proc
             /\ mpp' = CodecCall("encode", waiter.frame, r)
             /\ waiter' = [NoWaiter EXCEPT
                               !.touched_freed = @ \/ waiter.touched_freed
                                                   \/ enc.freed]
    /\ UNCHANGED <<run, port, kms, cap, now, call, hist, aborted, center, dec,
                   tc, img, jpg, thr>>

\* A caller that encodes while another thread destroys the encoder.
NextWait ==
    \/ EncodeEnter
    \/ EncodeTakeLock
    \/ DestroyEncoder

\* Callers that create the processors, encode and destroy them.
NextCreate ==
    \/ CreateEncoder
    \/ CreateDecoder
    \/ EncodeSized
    \/ DestroyEncoder
    \/ DestroyDecoder

\* A caller that encodes, decodes and resets.
NextMpp ==
    \/ Encode
    \/ Decode
    \/ ResetEncoder
    \/ ResetDecoder

\* Callers that encode and decode while the processors are destroyed.
NextStop ==
    \/ Encode
    \/ Decode
    \/ DestroyEncoder
    \/ DestroyDecoder

\* A caller that tunes the encoder's QP range around its destruction.
NextQp ==
    \/ SetQpRange
    \/ DestroyEncoder

\* =========================================================================
\* Concurrent callers of one display runtime
\* =========================================================================
\* Two threads call into one opened us_drm_s.  A step is one statement of
\* drm.c that reads or writes has_vsync, stub_n_buf, exposing_dma_fd or
\* blank_at_ts; the labels are the statements' line numbers.  The functions
\* take no lock (us_drm_runtime_s has none), so nothing guards a step but
\* the caller's own position.
Callers == {1, 2}

\* The first statement of each function a caller can enter.
EntryPoints == {"stub_423", "wait_360", "dma_499", "ns_321"}

\* The dma_fd of the buffers a caller of us_drm_expose_dma passes.
DmaFds == { hw.dma_fd : hw \in UNION { HwBuf(c) : c \in LiveCaps } }

NoLocals == [buf |-> 0, saved_ts |-> 0, ret |-> "none", dma_fd |-> -1]

\* The four fields after us_drm_open (drm.c:306-307, 227-228).
ThrOpened ==
    [run |-> [has_vsync |-> TRUE, stub_n_buf |-> 0, exposing_dma_fd |-> -1,
              blank_at_ts |-> 0],
     pc |-> [t \in Callers |-> "idle"],
     loc |-> [t \in Callers |-> NoLocals],
     fb |-> 0]

Goto(th, t, label) == [th EXCEPT !.pc[t] = label]

\* return: back to us_drm_ensure_no_signal when it made the call.
ReturnFrom(th, t) ==
    IF th.loc[t].ret = "none" THEN [th EXCEPT !.pc[t] = "idle"]
    ELSE [th EXCEPT !.pc[t] = th.loc[t].ret,
                    !.loc[t].ret = IF th.loc[t].ret = "ns_330"
                                   THEN "ns_338" ELSE "none"]

\* The statement at caller t's position; now_ts is the clock it read.
Statement(th, t, now_ts) ==
    LET pc == th.pc[t]
    IN  CASE pc = "stub_423" ->
                 Goto([th EXCEPT !.run.blank_at_ts = 0], t, "stub_461")
          [] pc = "stub_461" ->
                 Goto([th EXCEPT !.loc[t].buf = th.run.stub_n_buf],
                      t, "stub_463")
          [] pc = "stub_463" ->
                 Goto([th EXCEPT !.run.has_vsync = FALSE], t, "stub_469")
          [] pc = "stub_469" ->
                 Goto([th EXCEPT !.fb = FbId(th.loc[t].buf)], t, "stub_482")
          [] pc = "stub_482" ->
                 ReturnFrom([th EXCEPT !.run.stub_n_buf = (@ + 1) % StubBufs],
                            t)
          [] pc = "wait_360" ->
                 Goto([th EXCEPT !.run.blank_at_ts = 0], t, "wait_369")
          [] pc = "wait_369" ->
                 IF th.run.has_vsync THEN ReturnFrom(th, t)
                 ELSE Goto(th, t, "wait_400")
          [] pc = "wait_400" ->
                 ReturnFrom([th EXCEPT !.run.has_vsync = TRUE,
                                       !.run.exposing_dma_fd = -1], t)
          [] pc = "dma_499" ->
                 Goto([th EXCEPT !.run.blank_at_ts = 0], t, "dma_508")
          [] pc = "dma_508" ->
                 Goto([th EXCEPT !.run.has_vsync = FALSE], t, "dma_623")
          [] pc = "dma_623" ->
                 ReturnFrom([th EXCEPT !.run.exposing_dma_fd = th.loc[t].dma_fd],
                            t)
          [] pc = "ns_321" ->
                 Goto(IF th.run.blank_at_ts = 0
                      THEN [th EXCEPT !.run.blank_at_ts = now_ts + BlankAfter]
                      ELSE th,
                      t, "ns_324")
          [] pc = "ns_324" ->
                 Goto([th EXCEPT !.loc[t].saved_ts = th.run.blank_at_ts],
                      t, "ns_327")
          [] pc = "ns_327" ->
                 IF now_ts <= th.run.blank_at_ts
                 THEN Goto([th EXCEPT !.loc[t].ret = "ns_330"], t, "wait_360")
                 ELSE Goto(th, t, "ns_338")
          [] pc = "ns_330" -> Goto(th, t, "stub_423")
          [] pc = "ns_338" ->
                 ReturnFrom([th EXCEPT !.run.blank_at_ts = th.loc[t].saved_ts],
                            t)

InitThr == thr = ThrOpened

\* A caller enters one of the functions.
ThrEnter ==
    /\ \E t \in Callers, label \in EntryPoints, dma_fd \in DmaFds :
         /\ thr.pc[t] = "idle"
         /\ thr' = [thr EXCEPT
                       !.pc[t] = label,
                       !.loc[t] = IF label = "dma_499"
                                  THEN [NoLocals EXCEPT !.dma_fd = dma_fd]
                                  ELSE NoLocals]
    /\ UNCHANGED <<drmVars, centerVars, mppVars, tc, img, jpg>>

\* A caller executes its next statement.
ThrStep ==
    /\ \E t \in Callers :
         /\ thr.pc[t] # "idle"
         /\ thr' = Statement(thr, t, now)
    /\ UNCHANGED <<drmVars, centerVars, mppVars, tc, img, jpg>>

NextThreads ==
    \/ ThrEnter
    \/ ThrStep

\* =========================================================================
\* Pixel-format conversion to NV12 (encoders/mpp format converter)
\* =========================================================================
\* A uint32_t as its two 16-bit halves, so that a product that wraps at 2^32
\* wraps in the model as it does in C.
U32(n) == [hi |-> n \div 65536, lo |-> n % 65536]

Add32(x, y) ==
    [hi |-> (x.hi + y.hi + (x.lo + y.lo) \div 65536) % 65536,
     lo |-> (x.lo + y.lo) % 65536]

\* x * n in uint32_t arithmetic, by doubling.
RECURSIVE Mul32(_, _)
Mul32(x, n) ==
    IF n = 0 THEN U32(0)
    ELSE With(Mul32(x, n \div 2), LAMBDA d :
             IF n % 2 = 1 THEN Add32(Add32(d, d), x) ELSE Add32(d, d))

\* x / 2 in uint32_t arithmetic.
Half32(x) == [hi |-> x.hi \div 2, lo |-> x.lo \div 2 + (x.hi % 2) * 32768]

\* The size_t a uint32_t below 2^31 converts to.
SizeOf32(x) == x.hi * 65536 + x.lo

\* -------------------------------------- _us_mpp_calc_frame_size_by_format
\* width * height * 3 / 2 and the like are computed in uint32_t and then
\* widened to the size_t the function returns.
_us_mpp_calc_frame_size_by_format(width, height, format) ==
    CASE format \in {"RGB24", "BGR24"} -> Mul32(Mul32(U32(width), height), 3)
      [] format \in {"YUYV", "NV16"} -> Mul32(Mul32(U32(width), height), 2)
      [] format \in {"NV12", "YUV420"} ->
            Half32(Mul32(Mul32(U32(width), height), 3))
      [] OTHER -> U32(0)

\* The bytes of a frame are kept for frames of at most MaxBytes bytes; a
\* larger frame is followed by its geometry and sizes only (data = <<>>).
Drawn(size) == size <= MaxBytes

\* --------------------------------------------------- us_frame_realloc_data
\* Grows the buffer to size bytes when it is smaller; the bytes already there
\* are kept, the new ones hold whatever the allocator left there (fill).
us_frame_realloc_data(frame, size, fill) ==
    IF frame.allocated >= size THEN frame
    ELSE [frame EXCEPT
            !.allocated = size,
            !.data = IF Drawn(size)
                     THEN [i \in 1..size |->
                              IF i <= Len(frame.data) THEN frame.data[i]
                              ELSE fill]
                     ELSE <<>>]

\* The result of a conversion and the destination frame after it.
Converted(result, dst) == [result |-> result, dst |-> dst]

\* The last byte a converter writes, counted from the start of the
\* destination: the luma plane, then chroma rows of uv_stride bytes, the last
\* of them 2 * ceil(width / 2) bytes long.  LargeExtent stands for every
\* extent of 2^31 - 1 bytes or more.
LargeExtent == 2147483647

Nv12Extent(width, height, uv_stride) ==
    IF width = 0 \/ height = 0 THEN 0
    ELSE IF height > LargeExtent \div (2 * width) THEN LargeExtent
    ELSE width * height + ((height + 1) \div 2 - 1) * uv_stride
         + 2 * ((width + 1) \div 2)

\* A converter that writes past the end of the destination buffer either
\* goes unnoticed or ends the process (io.overrun).
AfterWrites(extent, d, io, done) ==
    IF extent > d.allocated /\ io.overrun = "SIGSEGV"
    THEN Converted("SIGSEGV", d)
    ELSE done

\* What every converter writes to the destination before it returns OK.
SetNv12Info(dst, width, height, nv12_size, data) ==
    [dst EXCEPT !.width = width, !.height = height, !.format = "NV12",
                !.used = nv12_size, !.data = data]

\* Bytes first..last of a plane, <<>> when the bytes are not drawn.
Plane(data, first, last) ==
    IF last <= Len(data) THEN SubSeq(data, first, last) ELSE <<>>

\* libyuv MergeUVPlane for rows without padding: U and V interleaved.
MergeUVPlane(u, v) ==
    [i \in 1..(2 * Len(u)) |->
        IF i % 2 = 1 THEN u[(i + 1) \div 2] ELSE v[i \div 2]]

\* --------------------------------------------------------------- I420ToNV12
\* libyuv: refuses an empty picture; copies the luma plane from src_y to
\* dst_y and merges the chroma planes into dst_uv.
I420ToNV12(src_y, src_u, src_v, width, height) ==
    IF width <= 0 \/ height = 0 THEN [ret |-> -1, y |-> <<>>, uv |-> <<>>]
    ELSE [ret |-> 0, y |-> src_y, uv |-> MergeUVPlane(src_u, src_v)]

\* -------------------------------------------- _us_mpp_convert_yuv420_to_nv12
\* The call passes y_plane, the luma plane of the destination, as src_y and
\* as dst_y: the luma bytes of the destination stay what they were.
_us_mpp_convert_yuv420_to_nv12(src, dst, io) ==
    IF src.format # "YUV420" THEN Converted("FORMAT_UNSUPPORTED", dst) ELSE
    With(SizeOf32(_us_mpp_calc_frame_size_by_format(src.width, src.height,
                                                    "NV12")),
         LAMBDA nv12_size :
    With(us_frame_realloc_data(dst, nv12_size, io.fill), LAMBDA d :
    With(IF src.data = <<>> THEN 0 ELSE src.width * src.height,
         LAMBDA y_size :
    With(I420ToNV12(Plane(d.data, 1, y_size),
                    Plane(src.data, y_size + 1, y_size + y_size \div 4),
                    Plane(src.data, y_size + y_size \div 4 + 1,
                          y_size + 2 * (y_size \div 4)),
                    src.width, src.height),
         LAMBDA conv :
        IF conv.ret # 0 THEN Converted("FORMAT_UNSUPPORTED", d)
        ELSE AfterWrites(Nv12Extent(src.width, src.height, src.width), d, io,
                 Converted("OK",
                     SetNv12Info(d, src.width, src.height, nv12_size,
                         IF Drawn(nv12_size) /\ src.data # <<>>
                         THEN conv.y \o conv.uv
                              \o SubSeq(d.data, nv12_size + 1, Len(d.data))
                         ELSE <<>>)))))))

\* ----------------------------------------------- _us_mpp_convert_rgb_to_nv12
\* The offsets of the first loop: it reads the three bytes of every pixel
\* and writes its luma byte.
RgbLumaSteps(width, height) ==
    { [x |-> n % width, y |-> n \div width] : n \in 0..(width * height - 1) }

\* The turns of the second loop, one for every second row and column: the
\* chroma index it writes, the pixels it sums (those of the 2x2 block inside
\* the picture) and the number it divides the sums by.
RgbChromaSteps(width, height) ==
    { [x |-> s.x, y |-> s.y,
       uv_idx |-> (s.y \div 2) * (width \div 2) + s.x \div 2,
       pixels |-> {p \in RgbLumaSteps(width, height) :
                      /\ p.x \in {s.x, s.x + 1}
                      /\ p.y \in {s.y, s.y + 1}},
       divisor |-> 4] :
      s \in {l \in RgbLumaSteps(width, height) :
                 l.x % 2 = 0 /\ l.y % 2 = 0} }

\* The offsets read from rgb_data by both loops.
RgbReads(width, height) ==
    { (p.y * width + p.x) * 3 + c :
        p \in RgbLumaSteps(width, height)
               \cup UNION {s.pixels : s \in RgbChromaSteps(width, height)},
        c \in 0..2 }

\* The offsets written to nv12_data: y_plane[y_idx], uv_plane[uv_idx * 2]
\* and uv_plane[uv_idx * 2 + 1].
RgbWrites(width, height) ==
    { p.y * width + p.x : p \in RgbLumaSteps(width, height) }
    \cup { width * height + s.uv_idx * 2 + c :
             s \in RgbChromaSteps(width, height), c \in 0..1 }

\* The two loops write the luma of every pixel and one chroma pair for every
\* 2x2 block, at uv_idx = (y / 2) * (width / 2) + x / 2; the pixel bytes of
\* RGB frames are not drawn.
_us_mpp_convert_rgb_to_nv12(src, dst, io) ==
    IF src.format \notin {"RGB24", "BGR24"}
    THEN Converted("FORMAT_UNSUPPORTED", dst) ELSE
    With(SizeOf32(_us_mpp_calc_frame_size_by_format(src.width, src.height,
                                                    "NV12")),
         LAMBDA nv12_size :
    With(us_frame_realloc_data(dst, nv12_size, io.fill), LAMBDA d :
        AfterWrites(Nv12Extent(src.width, src.height, 2 * (src.width \div 2)),
                    d, io,
            Converted("OK", SetNv12Info(d, src.width, src.height, nv12_size,
                                        <<>>)))))

\* ---------------------------------------------- _us_mpp_convert_yuyv_to_nv12
\* YUY2ToNV12 refuses an empty picture, as I420ToNV12 does.
_us_mpp_convert_yuyv_to_nv12(src, dst, io) ==
    IF src.format # "YUYV" THEN Converted("FORMAT_UNSUPPORTED", dst) ELSE
    With(SizeOf32(_us_mpp_calc_frame_size_by_format(src.width, src.height,
                                                    "NV12")),
         LAMBDA nv12_size :
    With(us_frame_realloc_data(dst, nv12_size, io.fill), LAMBDA d :
        IF src.width <= 0 \/ src.height = 0
        THEN Converted("FORMAT_UNSUPPORTED", d)
        ELSE AfterWrites(Nv12Extent(src.width, src.height, src.width), d, io,
                 Converted("OK", SetNv12Info(d, src.width, src.height,
                                             nv12_size, <<>>)))))

\* ---------------------------------------------- _us_mpp_convert_nv16_to_nv12
\* The source is read as the code addresses it: the chroma pair of the loop
\* step (y, x), y and x even, is taken from bytes 2 * (y * width + x) and
\* the next one of the chroma plane, and stored as pair
\* (y / 2) * (width / 2) + x / 2 of the destination.
Nv16Payload(width, height) ==
    IF width = 0 \/ height = 0 THEN 0
    ELSE IF height > LargeExtent \div (4 * width) THEN LargeExtent
    ELSE 2 * width * height

\* The last byte the loop reads, counted from the start of the source.
Nv16ReadExtent(width, height) ==
    IF width = 0 \/ height = 0 THEN 0
    ELSE IF height > LargeExtent \div (4 * width) THEN LargeExtent
    ELSE width * height
         + 2 * (2 * ((height - 1) \div 2) * width + 2 * ((width - 1) \div 2))
         + 2

\* The loop steps that store pair k of the destination, as y * width + x.
Nv16Steps(k, width, height) ==
    { n \in 0..(width * height - 1) :
        /\ (n \div width) % 2 = 0
        /\ (n % width) % 2 = 0
        /\ k = ((n \div width) \div 2) * (width \div 2) + (n % width) \div 2 }

\* A byte of the source; one beyond its end is whatever the memory holds.
Nv16Byte(src, offset, io) ==
    IF offset + 1 <= Len(src.data) THEN src.data[offset + 1] ELSE io.fill

\* The destination bytes after the copy of the luma plane and the loop; a
\* pair stored by several steps holds what the last of them stored.
Nv16Chroma(src, d, io) ==
    [i \in 1..Len(d.data) |->
        IF i <= src.width * src.height THEN src.data[i]
        ELSE With(Nv16Steps((i - 1 - src.width * src.height) \div 2,
                            src.width, src.height),
                  LAMBDA steps :
                 IF steps = {} THEN d.data[i]
                 ELSE Nv16Byte(src,
                          src.width * src.height
                          + 2 * (CHOOSE n \in steps : \A m \in steps : m <= n)
                          + ((i - 1 - src.width * src.height) % 2),
                          io))]

_us_mpp_convert_nv16_to_nv12(src, dst, io) ==
    IF src.format # "NV16" THEN Converted("FORMAT_UNSUPPORTED", dst) ELSE
    With(SizeOf32(_us_mpp_calc_frame_size_by_format(src.width, src.height,
                                                    "NV12")),
         LAMBDA nv12_size :
    With(us_frame_realloc_data(dst, nv12_size, io.fill), LAMBDA d :
        IF Nv16ReadExtent(src.width, src.height)
               > Nv16Payload(src.width, src.height)
           /\ io.overrun = "SIGSEGV"
        THEN Converted("SIGSEGV", d)
        ELSE
        AfterWrites(Nv12Extent(src.width, src.height, 2 * (src.width \div 2)),
                    d, io,
            Converted("OK", SetNv12Info(d, src.width, src.height, nv12_size,
                IF Drawn(nv12_size) /\ src.data # <<>>
                THEN Nv16Chroma(src, d, io)
                ELSE <<>>)))))

\* ------------------------------------------------------ us_mpp_convert_format
\* An NV12 input is copied: memcpy of nv12_size bytes.
us_mpp_convert_format(input_frame, output_frame, target_format, io) ==
    IF target_format # "NV12"
    THEN Converted("FORMAT_UNSUPPORTED", output_frame)
    ELSE IF input_frame.format = "NV12" THEN
        With(SizeOf32(_us_mpp_calc_frame_size_by_format(
                 input_frame.width, input_frame.height, "NV12")),
             LAMBDA nv12_size :
        With(us_frame_realloc_data(output_frame, nv12_size, io.fill),
             LAMBDA d :
            Converted("OK",
                SetNv12Info(d, input_frame.width, input_frame.height,
                    nv12_size,
                    IF Drawn(nv12_size) /\ input_frame.data # <<>>
                    THEN SubSeq(input_frame.data, 1, nv12_size)
                         \o SubSeq(d.data, nv12_size + 1, Len(d.data))
                    ELSE <<>>))))
    ELSE CASE input_frame.format \in {"RGB24", "BGR24"} ->
                _us_mpp_convert_rgb_to_nv12(input_frame, output_frame, io)
           [] input_frame.format = "YUYV" ->
                _us_mpp_convert_yuyv_to_nv12(input_frame, output_frame, io)
           [] input_frame.format = "YUV420" ->
                _us_mpp_convert_yuv420_to_nv12(input_frame, output_frame, io)
           [] input_frame.format = "NV16" ->
                _us_mpp_convert_nv16_to_nv12(input_frame, output_frame, io)
           [] OTHER -> Converted("FORMAT_UNSUPPORTED", output_frame)

\* ------------------------------------------------ us_mpp_is_format_supported
us_mpp_is_format_supported(format) ==
    format \in {"MJPEG", "JPEG", "RGB24", "BGR24", "YUYV", "NV12", "NV16",
                "YUV420"}

\* ------------------------------------------------------- conversion calls
\* The geometries of the frames converted: empty, even, odd, full HD and one
\* whose byte count does not fit 32 bits.
Geometries ==
    {<<0, 0>>, <<2, 2>>, <<4, 2>>, <<2, 4>>, <<3, 3>>, <<1920, 1080>>,
     <<65536, 32768>>}

\* The bytes of a drawn frame: every byte differs from the others, and from
\* the bytes of a frame of another format.
Pixels(format, width, height) ==
    IF format \in {"YUV420", "NV12"} /\ width <= MaxBytes
       /\ height <= MaxBytes /\ Drawn((width * height * 3) \div 2)
    THEN [i \in 1..((width * height * 3) \div 2) |->
             (IF format = "NV12" THEN 100 ELSE 200) + i]
    ELSE IF format = "NV16" /\ width <= MaxBytes /\ height <= MaxBytes
            /\ Drawn((width * height * 3) \div 2)
    THEN [i \in 1..(2 * width * height) |-> 20 + i]
    ELSE <<>>

ImgSources ==
    { [format |-> f, width |-> g[1], height |-> g[2],
       data |-> Pixels(f, g[1], g[2])] :
        f \in {"RGB24", "BGR24", "YUYV", "YUV420", "NV16", "NV12", "MJPEG"},
        g \in Geometries }

\* The destination before the first call: not allocated yet, or a buffer of
\* six bytes left by an earlier use.
ImgDests ==
    { [format |-> "NONE", width |-> 0, height |-> 0, used |-> 0,
       allocated |-> n, data |-> [i \in 1..n |-> 0]] : n \in {0, 6} }

ImgTargets == {"NV12", "YUYV"}

\* io.fill: the byte found in memory the program did not write, newly
\* allocated or beyond the end of a buffer.
ConvertIO == [fill : {0, 255}, overrun : {"unnoticed", "SIGSEGV"}]

NoSource == [format |-> "NONE", width |-> 0, height |-> 0, data |-> <<>>]

InitImg ==
    \E d \in ImgDests :
        img = [dst |-> d, before |-> d, src |-> NoSource, target |-> "NONE",
               result |-> "none", calls |-> 0]

\* us_mpp_convert_format(src, dst, target); the destination is used again by
\* the next call, as the transcoder's conversion buffer is.
Convert ==
    /\ img.calls < MaxConverts
    /\ img.result # "SIGSEGV"
    /\ \E src \in ImgSources, target \in ImgTargets, io \in ConvertIO :
        With(us_mpp_convert_format(src, img.dst, target, io), LAMBDA r :
            img' = [dst |-> r.dst, before |-> img.dst, src |-> src,
                    target |-> target, result |-> r.result,
                    calls |-> img.calls + 1])
    /\ UNCHANGED <<drmVars, centerVars, mppVars, tc, jpg, thr>>

NextImg == Convert

\* =========================================================================
\* The software JPEG decoder (libs/unjpeg.c)
\* =========================================================================
\* What us_unjpeg leaves behind: its return value, the destination frame,
\* crashed (the process ended inside the call), error (the stage at which
\* the library called the error handler, or "none") and destroyed (the
\* calls of jpeg_destroy_decompress on the context of this call).
Unjpeged(retval, dest, crashed, error, destroyed) ==
    [retval |-> retval, dest |-> dest, crashed |-> crashed,
     error |-> error, destroyed |-> destroyed]

\* The label done: the context is destroyed and retval returned.
UnjpegDone(retval, dest, error) == Unjpeged(retval, dest, FALSE, error, 1)

\* _jpeg_error_handler logs the message and jumps back to the setjmp, which
\* returns -1: retval becomes -1 and control goes to done.
_jpeg_error_handler(dest, stage) == UnjpegDone(-1, dest, stage)

\* The test of the sampling factors: three components, 2x2, 1x1, 1x1.
is_420(comp_info) ==
    /\ Len(comp_info) = 3
    /\ comp_info[1] = <<2, 2>>
    /\ comp_info[2] = <<1, 1>>
    /\ comp_info[3] = <<1, 1>>

\* jpeg_read_raw_data writes rows of whole DCT blocks: the last row of the V
\* plane ends 8 * ceil(ceil(width / 2) / 8) bytes after its start.
RawExtent(width, height) ==
    width * height + (width \div 2) * (height \div 2)
    + (height \div 2 - 1) * (width \div 2)
    + 8 * (((width + 1) \div 2 + 7) \div 8)

\* The raw-plane branch: I420 with the chroma planes of (width / 2) *
\* (height / 2) bytes each.  io.error is the stage at which libjpeg reports
\* an error: "start" (jpeg_start_decompress), "read" (jpeg_read_raw_data)
\* or "finish" (jpeg_finish_decompress).
UnjpegYuv420(src, dest, io) ==
    IF io.error = "start" THEN _jpeg_error_handler(dest, "start") ELSE
    With(src.width * src.height
         + 2 * ((src.width \div 2) * (src.height \div 2)),
         LAMBDA need :
    With([us_frame_realloc_data(dest, need, 0) EXCEPT
             !.format = "YUV420", !.width = src.width,
             !.height = src.height, !.stride = src.width,
             !.used = need, !.data = <<>>],
         LAMBDA d :
        IF io.error = "read" THEN _jpeg_error_handler(d, "read")
        ELSE IF RawExtent(src.width, src.height) > d.allocated
                /\ io.overrun = "SIGSEGV"
        THEN Unjpeged(0, d, TRUE, "none", 0)
        ELSE IF io.error = "finish" THEN _jpeg_error_handler(d, "finish")
        ELSE UnjpegDone(0, d, "none")))

\* The RGB branch: one us_frame_append_data of stride bytes for every scan
\* line, after a us_frame_realloc_data to width * height * 4 bytes; the
\* appends leave used = height * stride in a buffer grown to hold it.  An
\* error of jpeg_read_scanlines stops the loop before its first line.  With
\* decode = false no line is read and jpeg_finish_decompress is not called.
UnjpegRgb(src, dest, decode, io) ==
    IF io.error = "start" THEN _jpeg_error_handler(dest, "start") ELSE
    With([dest EXCEPT !.format = "RGB24", !.width = src.width,
                      !.height = src.height, !.stride = src.width * 3,
                      !.used = 0],
         LAMBDA d :
        IF ~decode THEN UnjpegDone(0, d, "none")
        ELSE With(us_frame_realloc_data(d, src.width * src.height * 4, 0),
                  LAMBDA r :
                 IF io.error = "read" THEN _jpeg_error_handler(r, "read")
                 ELSE With([r EXCEPT !.used = src.height * d.stride,
                                     !.data = <<>>],
                           LAMBDA full :
                          IF io.error = "finish"
                          THEN _jpeg_error_handler(full, "finish")
                          ELSE UnjpegDone(0, full, "none"))))

\* A variant of us_unjpeg whose error handler returns -1 to the caller
\* straight away, past the label done.
UnjpegLeavingFromHandler(src, dest, decode, io) ==
    IF io.error # "none" THEN Unjpeged(-1, dest, FALSE, io.error, 0)
    ELSE IF decode /\ is_420(src.comp_info)
    THEN UnjpegYuv420(src, dest, io)
    ELSE UnjpegRgb(src, dest, decode, io)

\* ------------------------------------------------------------- us_unjpeg
\* src is the JPEG as jpeg_read_header sees it: width, height and the
\* sampling factors of its components.  io.error = "header": libjpeg
\* reports an error in jpeg_read_header, before the destination is touched.
us_unjpeg(src, dest, decode, io) ==
    IF io.error = "header" THEN _jpeg_error_handler(dest, "header")
    ELSE IF decode /\ is_420(src.comp_info)
    THEN UnjpegYuv420(src, dest, io)
    ELSE UnjpegRgb(src, dest, decode, io)

\* The JPEGs decoded: 4:2:0, 4:2:2, 4:4:4, greyscale, and three components
\* whose chroma planes are sampled differently from each other.
Samplings ==
    { <<(<<2, 2>>), (<<1, 1>>), (<<1, 1>>)>>,
      <<(<<2, 1>>), (<<1, 1>>), (<<1, 1>>)>>,
      <<(<<1, 1>>), (<<1, 1>>), (<<1, 1>>)>>,
      <<(<<1, 1>>)>>,
      <<(<<2, 2>>), (<<2, 1>>), (<<1, 1>>)>> }

Jpegs ==
    { [width |-> g[1], height |-> g[2], comp_info |-> s] :
        g \in {<<1920, 1080>>, <<640, 480>>, <<16, 16>>, <<2, 2>>, <<3, 3>>},
        s \in Samplings }

\* The destination before the first call: a new frame, or one that held a
\* full HD I420 picture.
JpgDests ==
    { [format |-> "NONE", width |-> 0, height |-> 0, stride |-> 0,
       used |-> 0, allocated |-> n, data |-> <<>>] : n \in {0, 3110400} }

UnjpegIO ==
    [error : {"none", "header", "start", "read", "finish"},
     overrun : {"unnoticed", "SIGSEGV"}]

NoJpeg == [width |-> 0, height |-> 0, comp_info |-> <<>>]

\* contexts: the decompress contexts created and not destroyed so far.
InitJpg ==
    \E d \in JpgDests :
        jpg = [src |-> NoJpeg, decode |-> FALSE, dest |-> d, retval |-> 0,
               crashed |-> FALSE, error |-> "none", destroyed |-> 0,
               contexts |-> 0, calls |-> 0]

\* us_unjpeg(src, dest, decode); jpeg_create_decompress makes the context of
\* the call.  The destination is used again by the next call.
Unjpeg ==
    /\ jpg.calls < MaxUnjpegs
    /\ ~jpg.crashed
    /\ \E src \in Jpegs, decode \in BOOLEAN, io \in UnjpegIO :
        With(us_unjpeg(src, jpg.dest, decode, io), LAMBDA r :
            jpg' = [src |-> src, decode |-> decode, dest |-> r.dest,
                    retval |-> r.retval, crashed |-> r.crashed,
                    error |-> r.error, destroyed |-> r.destroyed,
                    contexts |-> jpg.contexts + 1 - r.destroyed,
                    calls |-> jpg.calls + 1])
    /\ UNCHANGED <<drmVars, centerVars, mppVars, tc, img, thr>>

NextJpg == Unjpeg

\* =========================================================================
\* The transcoder (encoders/mpp/mpp_transcoder.c)
\* =========================================================================
\* calloc leaves combined_stats zero.
NoCombinedStats ==
    [frames_processed |-> 0, frames_decoded |-> 0, frames_encoded |-> 0,
     bytes_input |-> 0, bytes_output |-> 0, processing_errors |-> 0]

\* us_frame_init: an empty frame.
NewFrame ==
    [format |-> "NONE", width |-> 0, height |-> 0, used |-> 0,
     allocated |-> 0, data |-> <<>>]

\* ------------------------------------------------ us_mpp_transcoder_create
\* The decoder is created by the first MJPEG frame: decoder = NULL is <<>>.
\* decoders_created lists the geometries us_mpp_mjpeg_decoder_create has been
\* called with successfully, first_jpeg holds the geometry of the first frame
\* that was handed to the decoder.
NewTranscoder ==
    [initialized |-> TRUE, mutex |-> "unlocked", decoder |-> <<>>,
     encoder |-> NewEncoder, nv12_buffer |-> NewFrame,
     conversion_buffer |-> NewFrame, current_input_format |-> "NONE",
     needs_format_conversion |-> FALSE, combined_stats |-> NoCombinedStats,
     decoders_created |-> <<>>, first_jpeg |-> <<>>]

\* What us_mpp_transcoder_process returns: the transcoder after it, its
\* result, the result of the MJPEG decoder ("none": not called), whether
\* us_mpp_h264_encoder_encode was called, and what happened to the caller's
\* h264 frame.
Processed(t, result, decode, encoded, out) ==
    [tc |-> t, result |-> result, decode |-> decode, encoded |-> encoded,
     out |-> out]

\* --------------------------------------- us_mpp_get_format_conversion_info
us_mpp_get_format_conversion_info(input_format, output_format) ==
    IF input_format = output_format
    THEN [result |-> "OK", needs_conversion |-> FALSE]
    ELSE IF input_format \in
               {"RGB24", "BGR24", "YUYV", "YUV420", "NV16", "NV12"}
            /\ output_format = "NV12"
    THEN [result |-> "OK", needs_conversion |-> TRUE]
    ELSE [result |-> "FORMAT_UNSUPPORTED", needs_conversion |-> FALSE]

\* The frame the encoder is given, as the codec operators read it.
AsInput(frame) == [null |-> FALSE, format |-> frame.format, used |-> frame.used]

\* The label cleanup: the lock is released and result returned.
TcCleanup(t, result, decode, encoded, out) ==
    Processed(pthread_mutex_unlock(t), result, decode, encoded, out)

\* Step 2: the NV12 frame goes to the H.264 encoder.
TcEncode(t, nv12_input, decode, io) ==
    With(us_mpp_h264_encoder_encode(t.encoder, nv12_input, io.enc),
         LAMBDA e :
        TcCleanup([t EXCEPT !.encoder = e.proc], e.result, decode, TRUE,
                  e.out))

Geometry(frame) == [width |-> frame.width, height |-> frame.height]

\* A variant of the MJPEG path that creates a new decoder when the frame's
\* geometry is not the one the decoder was created with.
TcDecodeRecreating(t, input_frame, io) ==
    With(IF t.first_jpeg # <<>> THEN t
         ELSE [t EXCEPT !.first_jpeg = <<Geometry(input_frame)>>],
         LAMBDA t0 :
    With(IF t0.decoder = <<>>
            \/ t0.decoders_created[Len(t0.decoders_created)]
                   # Geometry(input_frame)
         THEN [t0 EXCEPT !.decoder =
                             <<us_mpp_mjpeg_decoder_create(input_frame.width,
                                                           input_frame.height)>>,
                         !.decoders_created =
                             Append(@, Geometry(input_frame))]
         ELSE t0,
         LAMBDA tc0 :
    With(us_mpp_mjpeg_decoder_decode(tc0.decoder[1], input_frame, io.dec),
         LAMBDA d :
        IF d.result # "OK"
        THEN TcCleanup([tc0 EXCEPT !.decoder = <<d.proc>>], d.result,
                       d.result, FALSE, "untouched")
        ELSE TcEncode([tc0 EXCEPT !.decoder = <<d.proc>>],
                      [null |-> FALSE, format |-> "NV12", used |-> 6],
                      d.result, io))))

\* A variant of the MJPEG path that hands the NV12 buffer to the encoder
\* whatever the decoder returned.
TcDecodeThenAlwaysEncode(t, input_frame, io) ==
    With(IF t.decoder = <<>>
         THEN us_mpp_mjpeg_decoder_create(input_frame.width,
                                          input_frame.height)
         ELSE t.decoder[1],
         LAMBDA decoder :
    With(us_mpp_mjpeg_decoder_decode(decoder, input_frame, io.dec),
         LAMBDA d :
        TcEncode([t EXCEPT !.decoder = <<d.proc>>],
                 [null |-> FALSE, format |-> "NV12", used |-> 6],
                 d.result, io)))

\* The MJPEG path: the decoder is created on first use, the frame decoded
\* into nv12_buffer; a result other than OK goes to cleanup.
TcDecode(t, input_frame, io) ==
    IF t.decoder = <<>> /\ io.create # "OK"
    THEN TcCleanup(t, io.create, "none", FALSE, "untouched")
    ELSE
    With(IF t.first_jpeg # <<>> THEN t
         ELSE [t EXCEPT !.first_jpeg = <<Geometry(input_frame)>>],
         LAMBDA t0 :
    With(IF t0.decoder = <<>>
         THEN [t0 EXCEPT !.decoder =
                             <<us_mpp_mjpeg_decoder_create(input_frame.width,
                                                           input_frame.height)>>,
                         !.decoders_created =
                             Append(@, Geometry(input_frame))]
         ELSE t0,
         LAMBDA tc0 :
    With(us_mpp_mjpeg_decoder_decode(tc0.decoder[1], input_frame, io.dec),
         LAMBDA d :
        IF d.result # "OK"
        THEN TcCleanup([tc0 EXCEPT !.decoder = <<d.proc>>], d.result,
                       d.result, FALSE, "untouched")
        ELSE With([tc0 EXCEPT !.decoder = <<d.proc>>,
                              !.nv12_buffer.format = "NV12",
                              !.nv12_buffer.width = input_frame.width,
                              !.nv12_buffer.height = input_frame.height,
                              !.nv12_buffer.used =
                                  (input_frame.width * input_frame.height * 3)
                                  \div 2],
                  LAMBDA t1 :
                 TcEncode(t1, AsInput(t1.nv12_buffer), d.result, io)))))

\* The path of the other formats: conversion into conversion_buffer.
TcConvert(t, input_frame, io) ==
    With(us_mpp_convert_format(input_frame, t.conversion_buffer, "NV12",
                               io.conv),
         LAMBDA c :
        IF c.result # "OK"
        THEN TcCleanup([t EXCEPT !.conversion_buffer = c.dst], c.result,
                       "none", FALSE, "untouched")
        ELSE TcEncode([t EXCEPT !.conversion_buffer = c.dst],
                      AsInput(c.dst), "none", io))

\* The bookkeeping of a change of the input format, under the lock.
TcFormatChange(t, format) ==
    IF t.current_input_format = format THEN t
    ELSE IF format \in {"MJPEG", "JPEG"}
    THEN [t EXCEPT !.current_input_format = format,
                   !.needs_format_conversion = FALSE]
    ELSE [t EXCEPT !.current_input_format = format,
                   !.needs_format_conversion =
                       us_mpp_get_format_conversion_info(format, "NV12")
                           .needs_conversion]

\* ----------------------------------------------- us_mpp_transcoder_process
\* io.create: the result of us_mpp_mjpeg_decoder_create; io.dec, io.enc and
\* io.conv: the answers to the decoder, the encoder and the converter.
\* combined_stats is written nowhere in the function.
us_mpp_transcoder_process(t, input_frame, io) ==
    IF input_frame.null
    THEN Processed(t, "INVALID_PARAM", "none", FALSE, "untouched")
    ELSE IF ~t.initialized
    THEN Processed(t, "NOT_INITIALIZED", "none", FALSE, "untouched")
    ELSE IF ~us_mpp_is_format_supported(input_frame.format)
    THEN Processed(t, "FORMAT_UNSUPPORTED", "none", FALSE, "untouched")
    ELSE
    With(pthread_mutex_lock(t), LAMBDA t0 :
        IF t0.current_input_format # input_frame.format
           /\ input_frame.format \notin {"MJPEG", "JPEG"}
           /\ us_mpp_get_format_conversion_info(input_frame.format, "NV12")
                 .result # "OK"
        THEN TcCleanup(t0,
                 us_mpp_get_format_conversion_info(input_frame.format,
                                                   "NV12").result,
                 "none", FALSE, "untouched")
        ELSE
        With(TcFormatChange(t0, input_frame.format), LAMBDA t1 :
            IF input_frame.format \in {"MJPEG", "JPEG"}
            THEN TcDecode(t1, input_frame, io)
            ELSE IF input_frame.format = "NV12"
            THEN TcEncode(t1, AsInput(input_frame), "none", io)
            ELSE TcConvert(t1, input_frame, io)))

\* --------------------------------------------- us_mpp_transcoder_get_stats
us_mpp_transcoder_get_stats(t) ==
    IF ~t.initialized
    THEN [tc |-> t, result |-> "NOT_INITIALIZED", stats |-> NoCombinedStats]
    ELSE [tc |-> pthread_mutex_unlock(pthread_mutex_lock(t)),
          result |-> "OK", stats |-> t.combined_stats]

\* ------------------------------------------------------ transcoder calls
\* The frames handed to the transcoder: 2x2 pictures, and 4x2 MJPEG
\* pictures; soi: an MJPEG frame that starts with FF D8.
TcFrames ==
    { f \in [null : BOOLEAN, format : {"MJPEG", "NV12", "YUYV", "H264"},
             used : {0, 1, 8}, soi : BOOLEAN, width : {2, 4}, height : {2},
             data : {<<>>}] :
        /\ f.width # 2 => (f.format = "MJPEG" /\ f.soi)
        /\ f.soi => (f.format = "MJPEG" /\ f.used >= 2)
        /\ f.null => (f.format = "H264" /\ f.used = 0) }

TcIO ==
    [create : {"OK", "INIT"},
     dec : {d \in DecodeIO :
               /\ d.codec \in {"ok", "info_change", "get_timeout",
                               "no_buffer"}
               /\ d.buffers = InfoChangeBuffers},
     enc : {e \in EncodeIO : e.n_null = 0 /\ e.put_ok},
     conv : {c \in ConvertIO : c.fill = 0 /\ c.overrun = "unnoticed"},
     length : {1, 5}]

NoTcCall ==
    [op |-> "create", arg |-> NoArg, result |-> "OK", decode |-> "none",
     encoded |-> FALSE, out |-> "untouched", h264_used |-> 0,
     stats |-> NoCombinedStats]

InitTc == tc = [obj |-> NewTranscoder, call |-> NoTcCall, calls |-> 0]

\* us_mpp_transcoder_process(transcoder, input_frame, h264_frame, force_key);
\* io.length is the size of the packet the encoder hands out, if any.
Process ==
    /\ tc.calls < MaxFrames
    /\ \E input_frame \in TcFrames, io \in TcIO :
        With(us_mpp_transcoder_process(tc.obj, input_frame, io), LAMBDA r :
            tc' = [obj |-> r.tc,
                   call |-> [op |-> "process", arg |-> input_frame,
                             result |-> r.result, decode |-> r.decode,
                             encoded |-> r.encoded, out |-> r.out,
                             h264_used |->
                                 IF r.out = "h264" THEN io.length ELSE 0,
                             stats |-> tc.call.stats],
                   calls |-> tc.calls + 1])
    /\ UNCHANGED <<drmVars, centerVars, mppVars, img, jpg, thr>>

\* us_mpp_transcoder_get_stats(transcoder, &stats).
GetStats ==
    /\ tc.call.op # "get_stats"
    /\ With(us_mpp_transcoder_get_stats(tc.obj), LAMBDA r :
            tc' = [tc EXCEPT !.obj = r.tc,
                             !.call = [NoTcCall EXCEPT
                                          !.op = "get_stats",
                                          !.result = r.result,
                                          !.stats = r.stats]])
    /\ UNCHANGED <<drmVars, centerVars, mppVars, img, jpg, thr>>

NextTc ==
    \/ Process
    \/ GetStats

\* =========================================================================
\* The subsystems at rest
\* =========================================================================
TcIdle == [obj |-> NewTranscoder, call |-> NoTcCall, calls |-> 0]

ImgIdle ==
    [dst |-> CHOOSE d \in ImgDests : d.allocated = 0,
     before |-> CHOOSE d \in ImgDests : d.allocated = 0,
     src |-> NoSource, target |-> "NONE", result |-> "none", calls |-> 0]

JpgIdle ==
    [src |-> NoJpeg, decode |-> FALSE,
     dest |-> CHOOSE d \in JpgDests : d.allocated = 0,
     retval |-> 0, crashed |-> FALSE, error |-> "none", destroyed |-> 0,
     contexts |-> 0, calls |-> 0]

ThrIdle == ThrOpened

\* =========================================================================
\* Specifications
\* =========================================================================
\* The subsystems a specification leaves alone stay in these states.
DrmIdle == InitDrmWith({NoPort}, {"other"})

LibIdle == tc = TcIdle /\ img = ImgIdle /\ jpg = JpgIdle /\ thr = ThrIdle

\* The display engine on any of the drivers, the port to be detected.
Init == InitDrm /\ CenterIdle /\ InitMpp /\ LibIdle

\* The display engine with the port option set or not.
InitAnyPort ==
    InitDrmWith({NoPort, ConnPort}, Drivers) /\ CenterIdle /\ InitMpp /\ LibIdle

\* The display engine on a connector with any of the mode lists.
InitSink ==
    InitDrmOn({NoPort}, {"other"}, ModeLists) /\ CenterIdle /\ InitMpp
    /\ LibIdle

\* Every geometry up to MaxDim.
InitGeometry == DrmIdle /\ InitCenter /\ InitMpp /\ LibIdle

\* An opened display with its callers outside of every function.
InitThreads ==
    /\ DrmIdle /\ CenterIdle /\ InitMpp
    /\ tc = TcIdle /\ img = ImgIdle /\ jpg = JpgIdle
    /\ InitThr

\* The format converter alone.
InitConvert ==
    /\ DrmIdle /\ CenterIdle /\ InitMpp
    /\ tc = TcIdle /\ jpg = JpgIdle /\ thr = ThrIdle
    /\ InitImg

\* The JPEG decoder alone.
InitUnjpeg ==
    /\ DrmIdle /\ CenterIdle /\ InitMpp
    /\ tc = TcIdle /\ img = ImgIdle /\ thr = ThrIdle
    /\ InitJpg

\* The transcoder alone.
InitTranscoder ==
    /\ DrmIdle /\ CenterIdle /\ InitMpp
    /\ img = ImgIdle /\ jpg = JpgIdle /\ thr = ThrIdle
    /\ InitTc

\* The two codec processors.
InitCodec == DrmIdle /\ CenterIdle /\ InitMpp /\ LibIdle

\* No codec processor yet.
InitCreate ==
    /\ DrmIdle /\ CenterIdle /\ LibIdle
    /\ waiter = NoWaiter
    /\ enc = Unmade
    /\ dec = Unmade
    /\ mpp = CodecCall("none", NoArg,
                       Returned(Unmade, "OK", FALSE, "untouched"))

Next == NextDrm

\* The display engine under a caller that streams frames or shows stubs.
Spec == Init /\ [][Next]_vars

SpecDrm == Init /\ [][NextDrm]_vars

\* The display engine under a caller without a signal.
SpecNoSignal == Init /\ [][NextNoSignal]_vars

\* The display engine under a caller that opens and closes it.
SpecOpen == InitAnyPort /\ [][NextOpen]_vars

\* The sink selection over the mode lists.
SpecSink == InitSink /\ [][NextSink]_vars

\* The centering function.
SpecCenter == InitGeometry /\ [][NextCenter]_vars

\* The codec processors.
SpecMpp == InitCodec /\ [][NextMpp]_vars

\* The codec processors while they are destroyed.
SpecStop == InitCodec /\ [][NextStop]_vars

\* The encoder's QP range.
SpecQp == InitCodec /\ [][NextQp]_vars

\* Two threads on one display runtime.
\* The encoder under a caller and a destroying thread.
SpecWait == InitCodec /\ [][NextWait]_vars

\* The two codec processors from before their creation.
SpecCreate == InitCreate /\ [][NextCreate]_vars

SpecThreads == InitThreads /\ [][NextThreads]_vars

\* Conversions of frames to NV12.
SpecImg == InitConvert /\ [][NextImg]_vars

\* Calls of the transcoder.
SpecTc == InitTranscoder /\ [][NextTc]_vars

\* Calls of the software JPEG decoder.
SpecJpg == InitUnjpeg /\ [][NextJpg]_vars

\* =========================================================================
\* Properties
\* =========================================================================
\* The flips the kernel accepted whose event the engine has not serviced:
\* the pending one and the completed ones still queued on the file.
FlipsInFlight ==
    (IF kms.flip_pending # NoFlip THEN 1 ELSE 0) + Len(kms.events)

\* A flip that pins a capture buffer is pending or waits to be serviced.
DmaFlipInFlight ==
    \/ kms.flip_pending.dma_fd >= 0
    \/ \E i \in 1..Len(kms.events) : kms.events[i].dma_fd >= 0

\* The capture geometry does not fit the selected mode.
Oversize ==
    /\ cap # NoCap
    /\ run.mode # NoMode
    /\ (cap.width > run.mode.hdisplay \/ cap.height > run.mode.vdisplay)

\* C1: on an open display, whatever expose and wait calls were made, at
\* most one page flip is queued whose vsync event has not been delivered
\* to the engine.
C1_OneFlipInFlight == run.fd >= 0 => FlipsInFlight <= 1

\* C2: while a flip queued by us_drm_expose_dma is in flight,
\* exposing_dma_fd is the dma_fd of its buffer, and exposing_dma_fd is
\* never non-negative when no flip of a DMA buffer is in flight.
C2_ExposingFdTracksFlip ==
    /\ kms.flip_pending.dma_fd >= 0
           => run.exposing_dma_fd = kms.flip_pending.dma_fd
    /\ run.exposing_dma_fd >= 0 => DmaFlipInFlight

C4_DpmsWrittenOnce ==
    (hist.ns_only /\ call.op = "ensure_no_signal" /\ call.note.dpms_off)
        => Len(kms.dpms_log) = 1

\* C4: on a display that was only ever fed us_drm_ensure_no_signal calls,
\* a call shows the NO LIVE VIDEO stub only up to the deadline and powers
\* off only past it; the DPMS property is written ON at most once, by the
\* first call that passes the status check, and OFF at most once, after it.
C4_StubsThenPowerOff ==
    hist.ns_only =>
        /\ kms.dpms_log \in {<<>>, <<1>>, <<0>>, <<1, 0>>}
        /\ call.op = "ensure_no_signal" =>
              /\ call.note.flip # "none" =>
                    /\ call.note.stub = US_DRM_STUB_NO_SIGNAL
                    /\ now <= run.blank_at_ts
              /\ call.note.dpms_off =>
                    /\ now > run.blank_at_ts
                    /\ call.note.flip = "none"
                    /\ run.dpms_state = 0
                    /\ run.dpms_id > 0
                           => kms.dpms_log \in {<<0>>, <<1, 0>>}

\* Stubs were shown, the deadline passed and the display was powered off.
C4_Witness ==
    /\ hist.ns_only
    /\ call.op = "ensure_no_signal"
    /\ call.note.dpms_off
    /\ kms.dpms_log = <<1, 0>>

\* The deadline after a us_drm_ensure_no_signal call that started at
\* clock now with the deadline run.blank_at_ts.
DeadlineKept ==
    (call'.op = "ensure_no_signal" /\ ~aborted') =>
        run'.blank_at_ts = IF run.blank_at_ts = 0 THEN now + BlankAfter
                           ELSE run.blank_at_ts

C6_NoDeviceWithoutFlip ==
    [][(call'.op = "expose_dma" /\ call'.note.status = "d") =>
          /\ call'.ret = US_ERROR_NO_DEVICE
          /\ call'.note.flip = "none"
          /\ kms'.flip_pending = kms.flip_pending
          /\ kms'.events = kms.events
          /\ run'.has_vsync = run.has_vsync
          /\ run'.exposing_dma_fd = run.exposing_dma_fd]_vars

\* A frame was exposed and is still pinned when the next us_drm_expose_dma
\* finds the connector disconnected.
C6_Witness ==
    /\ call.op = "expose_dma"
    /\ call.note.status = "d"
    /\ call.ret = US_ERROR_NO_DEVICE
    /\ run.exposing_dma_fd >= 0
    /\ ~run.has_vsync

\* C7: when the capture geometry is larger than the selected mode, the
\* bad-resolution stub path succeeds: on Amlogic, where
\* us_drm_expose_centered takes that path, a call that finds the connector
\* connected ends with the stub framebuffer written and a flip or a
\* drmModeSetCrtc issued, without a failed assertion.
C7_OversizeShowsStub ==
    (/\ call.op = "expose_centered"
     /\ Oversize
     /\ run.platform = "amlogic"
     /\ call.note.status \in {"c", "skipped"})
        => /\ ~aborted
           /\ call.note.fb_written
           /\ call.note.stub = US_DRM_STUB_BAD_RESOLUTION
           /\ (call.note.flip # "none" \/ call.note.setcrtc # "none")

\* C8: for a source that fits the mode, both centering computations give
\* offset = (mode - source) div 2 on each axis, and the centered rectangle
\* lies inside the mode area.
C8_CenterOffsets ==
    (/\ center.by # "none"
     /\ center.src_width <= center.dst_width
     /\ center.src_height <= center.dst_height) =>
        /\ center.offset_x = (center.dst_width - center.src_width) \div 2
        /\ center.offset_y = (center.dst_height - center.src_height) \div 2
        /\ 0 <= center.offset_x
        /\ 0 <= center.offset_y
        /\ center.offset_x + center.src_width <= center.dst_width
        /\ center.offset_y + center.src_height <= center.dst_height

\* _drm_calculate_center moved a smaller source off the top left corner,
\* the difference being odd on one axis.
C8_Witness ==
    /\ center.by = "calculate_center"
    /\ center.offset_x > 0
    /\ center.offset_y > 0
    /\ (center.dst_width - center.src_width) % 2 = 1

\* C9: a us_drm_open in which drmSetMaster is refused does not fail: the
\* display ends up opened, for a stub or for DMA.
C9_OpenWithoutMaster ==
    (call.op = "open" /\ call.note.master = "refused")
        => (call.ret >= 0 /\ run.fd >= 0 /\ run.opened >= 0)

\* C10: a us_mpp_h264_encoder_encode or us_mpp_mjpeg_decoder_decode call
\* that returns OK increases the processor's stats.frames_processed by one
\* and leaves its consecutive_errors at 0.
C10_OkCountsFrame ==
    [][/\ (mpp'.op = "encode" /\ mpp'.result = "OK") =>
              /\ enc'.stats.frames_processed
                     = enc.stats.frames_processed + 1
              /\ enc'.consecutive_errors = 0
       /\ (mpp'.op = "decode" /\ mpp'.result = "OK") =>
              /\ dec'.stats.frames_processed
                     = dec.stats.frames_processed + 1
              /\ dec'.consecutive_errors = 0]_vars

\* C11: on every codec processor consecutive_errors counts the failed
\* encode/decode calls since the last successful one: a call that returns
\* a failure (a rejection of its parameters, of the format, of a processor
\* that is not initialized or is stopping included) adds 1 to it, and a
\* call that returns OK resets it to 0.
C11_ConsecutiveErrorsCountFailures ==
    [][/\ mpp'.op = "encode" =>
              enc'.consecutive_errors
                  = IF mpp'.result = "OK" THEN 0
                    ELSE enc.consecutive_errors + 1
       /\ mpp'.op = "decode" =>
              dec'.consecutive_errors
                  = IF mpp'.result = "OK" THEN 0
                    ELSE dec.consecutive_errors + 1]_vars

\* The decode call just made passed the tests that precede the lock and the
\* stop flag: an MJPEG frame handed to an initialized, running decoder.
DecodeAdmitted ==
    /\ mpp'.op = "decode"
    /\ ~mpp'.arg.null
    /\ us_mpp_is_format_supported_for_decode(mpp'.arg.format)
    /\ dec.initialized
    /\ ~dec.should_stop

\* C12 as stated: us_mpp_mjpeg_decoder_decode on an input shorter than
\* 2 bytes, or whose first two bytes are not FF D8, returns the Decode
\* error, submits nothing to the codec and leaves the destination frame
\* unchanged.
C12_BadJpegReturnsDecode ==
    [][(DecodeAdmitted /\ (mpp'.arg.used < 2 \/ ~mpp'.arg.soi)) =>
           /\ mpp'.result = "DECODE"
           /\ ~mpp'.put
           /\ mpp'.out = "untouched"]_vars

\* C12: us_mpp_mjpeg_decoder_decode on an input of at least 2 bytes whose
\* first two bytes are not FF D8 returns the Decode error, and on an input
\* shorter than 2 bytes it returns InvalidParam; in both cases it submits
\* nothing to the codec and leaves the destination frame unchanged.
C12_BadJpegRejected ==
    [][(DecodeAdmitted /\ (mpp'.arg.used < 2 \/ ~mpp'.arg.soi)) =>
           /\ mpp'.result = IF mpp'.arg.used < 2 THEN "INVALID_PARAM"
                            ELSE "DECODE"
           /\ ~mpp'.put
           /\ mpp'.out = "untouched"]_vars

\* A decode call went under the lock with a frame of 2 bytes or more that
\* does not start with FF D8, and was refused.
C12_Witness ==
    /\ mpp.op = "decode"
    /\ ~mpp.arg.null
    /\ mpp.arg.format = "MJPEG"
    /\ mpp.arg.used >= 2
    /\ ~mpp.arg.soi
    /\ mpp.result = "DECODE"
    /\ dec.frame_number > 0

\* The frame of the call just made is one the codec function accepts: it
\* is there, it is not empty and it has the function's input format.
FrameAccepted ==
    /\ ~mpp'.arg.null
    /\ mpp'.arg.used # 0
    /\ \/ mpp'.op = "encode"
          /\ us_mpp_is_format_supported_for_encode(mpp'.arg.format)
       \/ mpp'.op = "decode"
          /\ us_mpp_is_format_supported_for_decode(mpp'.arg.format)

C14_CallersExcluded ==
    Cardinality({t \in Callers : thr.pc[t] # "idle"}) <= 1

\* C15: us_mpp_h264_encoder_set_qp_range accepts a pair only when
\* qp_min <= qp_max <= 51; for any other pair it returns InvalidParam and
\* leaves the encoder's stored qp_min and qp_max and the codec
\* configuration as they were, on an initialized encoder and on one that
\* is not.
C15_QpRangeValidated ==
    [][mpp'.op = "set_qp_range" =>
           /\ mpp'.result = "OK" =>
                  /\ mpp'.arg.qp_min <= mpp'.arg.qp_max
                  /\ mpp'.arg.qp_max <= 51
           /\ ~(mpp'.arg.qp_min <= mpp'.arg.qp_max /\ mpp'.arg.qp_max <= 51)
                  => /\ mpp'.result = "INVALID_PARAM"
                     /\ enc'.qp_min = enc.qp_min
                     /\ enc'.qp_max = enc.qp_max
                     /\ enc'.enc_cfg = enc.enc_cfg
                     /\ enc'.codec_cfg = enc.codec_cfg]_vars

\* An encoder that is no longer initialized, whose range a caller had set
\* to 0..51, has refused the range 0..52.
C15_Witness ==
    /\ mpp.op = "set_qp_range"
    /\ mpp.arg = [qp_min |-> 0, qp_max |-> 52]
    /\ mpp.result = "INVALID_PARAM"
    /\ ~enc.initialized
    /\ enc.qp_min = 0
    /\ enc.qp_max = 51


\* width * height * 3 / 2 as a mathematical integer equals used; FALSE when
\* the product is too large for used, which is below 2^31 in every state.
IsNv12Payload(used, width, height) ==
    /\ (width = 0 \/ height <= 1431655764 \div width)
    /\ used = ((width * height) \div 2) * 3 + ((width * height) % 2)

\* C18: for every supported input format (RGB24, BGR24, YUYV, YUV420, NV16,
\* NV12) and every geometry, a us_mpp_convert_format call to NV12 that
\* returns OK leaves the destination with format NV12, the width and height
\* of the source, used = width * height * 3 / 2 and used <= allocated; a
\* call with any other target or input format returns FormatUnsupported and
\* leaves the destination unchanged.
C18_ConvertToNv12Postconditions ==
    img.calls > 0 =>
        IF /\ img.target = "NV12"
           /\ img.src.format \in
                 {"RGB24", "BGR24", "YUYV", "YUV420", "NV16", "NV12"}
        THEN img.result = "OK" =>
                /\ img.dst.format = "NV12"
                /\ img.dst.width = img.src.width
                /\ img.dst.height = img.src.height
                /\ IsNv12Payload(img.dst.used, img.src.width, img.src.height)
                /\ img.dst.used <= img.dst.allocated
        ELSE /\ img.result = "FORMAT_UNSUPPORTED"
             /\ img.dst = img.before

\* The I420 bytes an NV12 picture de-interleaves to: the luma plane, the
\* chroma bytes at the even offsets, the chroma bytes at the odd offsets.
Nv12ToI420(data, width, height) ==
    With(width * height, LAMBDA y_size :
    With((Len(data) - y_size) \div 2, LAMBDA c_size :
        SubSeq(data, 1, y_size)
        \o [i \in 1..c_size |-> data[y_size + 2 * i - 1]]
        \o [i \in 1..c_size |-> data[y_size + 2 * i]]))

\* C19: converting an I420 frame to NV12 is lossless: the output luma plane
\* is the input luma plane and the output chroma plane is the interleave of
\* the input U and V planes, so de-interleaving the result reproduces the
\* input I420 bytes.
C19_I420ToNv12Lossless ==
    ( /\ img.calls > 0
      /\ img.src.format = "YUV420"
      /\ img.src.data # <<>>
      /\ img.target = "NV12"
      /\ img.result = "OK" ) =>
        Nv12ToI420(SubSeq(img.dst.data, 1, img.dst.used),
                   img.src.width, img.src.height) = img.src.data


\* C20: us_unjpeg with decode = true emits I420 with stride = width and
\* used = width * height * 3 / 2 exactly when the JPEG has three components
\* sampled 2x2, 1x1, 1x1, and otherwise emits RGB24 with stride = width * 3
\* and used = width * height * 3.
C20_UnjpegOutputLayout ==
    (jpg.calls > 0 /\ jpg.decode /\ jpg.retval = 0 /\ ~jpg.crashed) =>
        IF is_420(jpg.src.comp_info)
        THEN /\ jpg.dest.format = "YUV420"
             /\ jpg.dest.stride = jpg.src.width
             /\ 2 * jpg.dest.used = jpg.src.width * jpg.src.height * 3
        ELSE /\ jpg.dest.format = "RGB24"
             /\ jpg.dest.stride = jpg.src.width * 3
             /\ jpg.dest.used = jpg.src.width * jpg.src.height * 3


\* C16: when the MJPEG decoder reports InfoChange (or any other result but
\* OK) for a frame, us_mpp_transcoder_process returns that same result, does
\* not call the H.264 encoder, leaves the caller's h264 frame untouched, and
\* has released the transcoder's lock.
C16_DecodeFailureSkipsEncoder ==
    (tc.call.op = "process" /\ tc.call.decode \notin {"none", "OK"}) =>
        /\ tc.call.result = tc.call.decode
        /\ ~tc.call.encoded
        /\ tc.call.out = "untouched"
        /\ tc.obj.mutex = "unlocked"

\* A call whose decoder reported InfoChange has returned InfoChange.
C16_Witness ==
    /\ tc.call.op = "process"
    /\ tc.call.arg.format = "MJPEG"
    /\ tc.call.decode = "INFO_CHANGE"
    /\ tc.call.result = "INFO_CHANGE"
    /\ ~tc.call.encoded
    /\ tc.obj.mutex = "unlocked"

\* C17: after every us_mpp_transcoder_process call the statistics that
\* us_mpp_transcoder_get_stats returns reflect the call: a successful call
\* adds 1 to frames_processed and to frames_encoded and adds the input and
\* output byte counts, a failed call adds 1 to processing_errors.
C17_StatsReflectEveryCall ==
    [][ (tc'.call.op = "process" /\ tc' # tc) =>
            With(us_mpp_transcoder_get_stats(tc.obj).stats, LAMBDA before :
            With(us_mpp_transcoder_get_stats(tc'.obj).stats, LAMBDA after :
                IF tc'.call.result = "OK"
                THEN /\ after.frames_processed = before.frames_processed + 1
                     /\ after.frames_encoded = before.frames_encoded + 1
                     /\ after.bytes_input
                            = before.bytes_input + tc'.call.arg.used
                     /\ after.bytes_output
                            = before.bytes_output + tc'.call.h264_used
                ELSE after.processing_errors
                         = before.processing_errors + 1)) ]_vars


\* C21: whenever the JPEG library signals an error at any stage of us_unjpeg
\* (header parse, start, scan-line read, finish), the call returns the one
\* failure value -1 and the decompress context of the call is destroyed
\* exactly once; on success the context is also destroyed exactly once and
\* 0 is returned.
C21_UnjpegDestroysContextOnce ==
    (jpg.calls > 0 /\ ~jpg.crashed) =>
        /\ jpg.destroyed = 1
        /\ jpg.contexts = 0
        /\ jpg.retval = (IF jpg.error = "none" THEN 0 ELSE -1)

\* Two calls returned, the last one after an error while reading scan lines.
C21_Witness ==
    /\ jpg.calls = 2
    /\ jpg.error = "read"
    /\ jpg.retval = -1
    /\ jpg.destroyed = 1
    /\ jpg.contexts = 0


\* C22 as stated: in the encoder's output-fetch loop a get_packet timeout on
\* the first poll makes us_mpp_h264_encoder_encode return OK, whereas a
\* timeout on a later poll of the same call makes the call fail.
C22_LateTimeoutFails ==
    (mpp.op = "encode" /\ mpp.ret = "MPP_ERR_TIMEOUT") =>
        IF mpp.polls = 1 THEN mpp.result = "OK" ELSE mpp.result # "OK"

\* C22: a get_packet timeout ends the output-fetch loop on whichever poll it
\* comes, the first or a later one, and us_mpp_h264_encoder_encode returns
\* OK (frame accepted, no bitstream) with the h264 frame untouched.
C22_TimeoutReturnsOk ==
    (mpp.op = "encode" /\ mpp.ret = "MPP_ERR_TIMEOUT") =>
        /\ mpp.result = "OK"
        /\ mpp.out = "untouched"

\* A call whose second poll timed out has returned OK.
C22_Witness ==
    /\ mpp.op = "encode"
    /\ mpp.ret = "MPP_ERR_TIMEOUT"
    /\ mpp.polls = 2
    /\ mpp.result = "OK"

\* C23: every us_mpp_h264_encoder_encode call ends after at most 30
\* get_packet polls; when 30 polls in a row answer success without a packet
\* the call fails with Timeout; and in every case the processing flag is
\* clear and the processor's lock released when the call has returned.
C23_EncodeEndsWithinMaxRetry ==
    mpp.op = "encode" =>
        /\ mpp.polls <= US_MPP_H264_MAX_RETRY
        /\ mpp.ret = "MPP_OK" =>
               (mpp.polls = US_MPP_H264_MAX_RETRY /\ mpp.result = "TIMEOUT")
        /\ ~enc.processing
        /\ enc.mutex = "unlocked"

\* A call that gave up after 30 polls without a packet.
C23_Witness ==
    /\ mpp.op = "encode"
    /\ mpp.polls = US_MPP_H264_MAX_RETRY
    /\ mpp.ret = "MPP_OK"
    /\ mpp.result = "TIMEOUT"
    /\ ~enc.processing
    /\ enc.mutex = "unlocked"


\* C24: on every codec processor, encoder and decoder, the processing flag
\* is true only while a caller holds the processor's lock inside an encode
\* or decode call: whenever the lock is free, processing is false.
C24_ProcessingOnlyUnderLock ==
    /\ enc.mutex = "unlocked" => ~enc.processing
    /\ dec.mutex = "unlocked" => ~dec.processing


\* The position of a step in what us_mpp_processor_destroy has done to a
\* processor (0: not done).
StepAt(proc, step) ==
    IF \E i \in 1..Len(proc.steps) : proc.steps[i] = step
    THEN CHOOSE i \in 1..Len(proc.steps) : proc.steps[i] = step
    ELSE 0

Before(proc, a, b) ==
    StepAt(proc, b) # 0 => (StepAt(proc, a) # 0 /\ StepAt(proc, a) < StepAt(proc, b))

DestroyInOrder(proc) ==
    /\ proc.steps # <<>> => (proc.should_stop /\ proc.steps[1] = "should_stop")
    /\ ~proc.initialized => StepAt(proc, "initialized") # 0
    /\ Before(proc, "should_stop", "lock")
    /\ Before(proc, "lock", "reset")
    /\ \A i \in 1..Len(DestroyReleases) :
           /\ Before(proc, "reset", DestroyReleases[i])
           /\ Before(proc, DestroyReleases[i], "mpp_destroy")
    /\ Before(proc, "reset", "mpp_destroy")
    /\ Before(proc, "mpp_destroy", "initialized")
    /\ Before(proc, "initialized", "unlock")

\* C25: us_mpp_processor_destroy works in this order on the encoder and on
\* the decoder: it sets should_stop, then takes the lock and resets the codec
\* context, then releases the buffers, the packet, the frame and the buffer
\* groups, then destroys the context and clears initialized; no teardown step
\* comes before the flag is set or before the context reset.
C25_DestroyStepsInOrder ==
    DestroyInOrder(enc) /\ DestroyInOrder(dec)

\* Both processors have been torn down, the decoder freed.
C25_Witness ==
    /\ ~enc.initialized /\ StepAt(enc, "pkt_grp") # 0
    /\ dec.freed /\ StepAt(dec, "frm_grp") # 0


\* C26: when decode_get_frame answers an info-change frame and the decoder
\* acknowledges it with INFO_CHANGE_READY, the decoder has recorded the
\* frame's width, height and strides, holds an external buffer group with
\* pre-allocated frame buffers that is attached to the context, and the call
\* returns InfoChange without writing the destination frame.
C26_InfoChangeAttachesGroup ==
    (mpp.op = "decode" /\ mpp.ret = "info_change" /\ mpp.ack) =>
        /\ dec.width = InfoChangeFrame(mpp.arg).width
        /\ dec.height = InfoChangeFrame(mpp.arg).height
        /\ dec.hor_stride = InfoChangeFrame(mpp.arg).hor_stride
        /\ dec.ver_stride = InfoChangeFrame(mpp.arg).ver_stride
        /\ dec.frm_grp.kind = "external"
        /\ dec.frm_grp.buffers > 0
        /\ dec.frm_grp.size = JpegBufSize(dec.width, dec.height)
        /\ dec.frm_grp.attached
        /\ mpp.result = "INFO_CHANGE"
        /\ mpp.out = "untouched"

\* What does hold of an acknowledged info-change frame: the geometry is
\* recorded and the call returns InfoChange with the destination untouched,
\* while the frame group is still the internal one of the create function.
C26_InfoChangeKeepsInternalGroup ==
    (mpp.op = "decode" /\ mpp.ret = "info_change" /\ mpp.ack) =>
        /\ dec.width = InfoChangeFrame(mpp.arg).width
        /\ dec.height = InfoChangeFrame(mpp.arg).height
        /\ dec.hor_stride = InfoChangeFrame(mpp.arg).hor_stride
        /\ dec.ver_stride = InfoChangeFrame(mpp.arg).ver_stride
        /\ dec.frm_grp.kind = "internal"
        /\ ~dec.frm_grp.attached
        /\ mpp.result = "INFO_CHANGE"
        /\ mpp.out = "untouched"


Nv16Pair(src, r, c, p) ==
    src.data[src.width * src.height + r * src.width + 2 * c + p + 1]

\* Byte p of the pair in column pair c of chroma row r of an NV12 frame.
Nv12Pair(dst, r, c, p) ==
    dst.data[dst.width * dst.height + r * dst.width + 2 * c + p + 1]

\* C28: the NV16 to NV12 converter copies the luma plane unchanged and
\* decimates the chroma rows by 2: the pair at chroma row r, column pair c of
\* the output is the pair at chroma row 2r, column pair c of the source, and
\* every byte it reads lies in the width * height * 2 bytes of the source.
C28_Nv16ChromaDecimated ==
    (/\ img.src.format = "NV16" /\ img.target = "NV12" /\ img.result = "OK"
     /\ img.src.width % 2 = 0 /\ img.src.height % 2 = 0) =>
        /\ Nv16ReadExtent(img.src.width, img.src.height)
               <= Nv16Payload(img.src.width, img.src.height)
        /\ (img.src.data # <<>> /\ img.dst.data # <<>>) =>
             /\ \A i \in 1..(img.src.width * img.src.height) :
                    img.dst.data[i] = img.src.data[i]
             /\ \A r \in 0..(img.src.height \div 2 - 1),
                   c \in 0..(img.src.width \div 2 - 1), p \in {0, 1} :
                    Nv12Pair(img.dst, r, c, p) = Nv16Pair(img.src, 2 * r, c, p)

\* What holds: pictures of at most two columns and two rows are converted as
\* stated.
C28_Nv16SmallPictures ==
    (/\ img.src.format = "NV16" /\ img.target = "NV12" /\ img.result = "OK"
     /\ img.src.width <= 2 /\ img.src.height <= 2) => C28_Nv16ChromaDecimated

\* In a picture of four columns, the second pair of the output row is taken
\* from the next chroma row of the source.
C28_Nv16WidePicture ==
    (/\ img.src.format = "NV16" /\ img.target = "NV12" /\ img.result = "OK"
     /\ img.src.width = 4 /\ img.src.height = 2
     /\ img.src.data # <<>> /\ img.dst.data # <<>>) =>
        /\ Nv12Pair(img.dst, 0, 0, 0) = Nv16Pair(img.src, 0, 0, 0)
        /\ Nv12Pair(img.dst, 0, 1, 0) = Nv16Pair(img.src, 1, 0, 0)
        /\ Nv12Pair(img.dst, 0, 1, 1) = Nv16Pair(img.src, 1, 0, 1)


\* The modes of the list that the selection looks at (it skips the
\* interlaced ones) and that satisfy the test of a tier.
SameGeometry(mode, width, height) ==
    mode.hdisplay = width /\ mode.vdisplay = height

SameGeometryAndRate(mode, width, height, hz) ==
    /\ SameGeometry(mode, width, height)
    /\ hz > 0
    /\ _get_refresh_rate(mode) = hz * 1000

SameWidthSmaller(mode, width, height) ==
    mode.hdisplay = width /\ mode.vdisplay < height

Progressive(modes) == { modes[i] : i \in { j \in 1..Len(modes) : ~modes[j].interlace } }

\* best is the mode the tiers of the selection give for the request.
BestByTiers(modes, width, height, hz, best) ==
    IF \E m \in Progressive(modes) : SameGeometryAndRate(m, width, height, hz)
    THEN best \in Progressive(modes)
         /\ SameGeometryAndRate(best, width, height, hz)
    ELSE IF \E m \in Progressive(modes) : SameGeometry(m, width, height)
    THEN best \in Progressive(modes) /\ SameGeometry(best, width, height)
    ELSE IF \E m \in Progressive(modes) : SameWidthSmaller(m, width, height)
    THEN best \in Progressive(modes)
         /\ SameWidthSmaller(best, width, height)
    ELSE IF \E m \in Progressive(modes) : m.preferred
    THEN best \in Progressive(modes) /\ best.preferred
    ELSE best = modes[1]

\* The display is open for a capture device other than the 640x416 one.
SinkChosen ==
    /\ call.op = "open" /\ run.fd >= 0 /\ run.mode # NoMode
    /\ cap # NoCap
    /\ ~(cap.width = 640 /\ cap.height = 416)

C30_ModeNeverInterlaced ==
    run.mode # NoMode => ~run.mode.interlace

\* What holds: the mode stored is interlaced only when it is the first of
\* the list and no tier before the last one gives a mode.
C30_InterlacedOnlyAsFirstListed ==
    (run.mode # NoMode /\ run.mode.interlace) =>
        /\ run.mode = kms.modes[1]
        /\ (cap # NoCap => ~\E m \in Progressive(kms.modes) :
                \/ SameGeometry(m, cap.width, cap.height)
                \/ SameWidthSmaller(m, cap.width, cap.height)
                \/ m.preferred)


\* ---------------------------------------------------------------- C31
\* The buffers of an open display whose framebuffer is registered.
Registered ==
    {n \in 1..run.n_bufs : run.opened >= 0 /\ run.bufs[n].fb_added}

\* C31: after a successful us_drm_open every registered framebuffer of a
\* stub or dumb-fallback surface has the dimensions of the display mode and
\* is not larger than the dumb buffer allocated for it, and the framebuffer
\* of a DMA-imported surface has the capture geometry.
C31_FramebufferMatchesSurface ==
    \A n \in Registered :
        IF run.bufs[n].dumb_created
        THEN /\ run.bufs[n].width = run.mode.hdisplay
             /\ run.bufs[n].height = run.mode.vdisplay
             /\ run.bufs[n].width <= run.bufs[n].dumb_width
             /\ run.bufs[n].height <= run.bufs[n].dumb_height
        ELSE /\ run.bufs[n].width = cap.width
             /\ run.bufs[n].height = cap.height

\* What holds instead: the framebuffer of a dumb-fallback surface has the
\* capture geometry, which has the mode's width and at least its height.
C31_FallbackRegisteredAsCapture ==
    \A n \in Registered :
        /\ run.bufs[n].dumb_created =>
               /\ run.bufs[n].dumb_width = run.mode.hdisplay
               /\ run.bufs[n].dumb_height = run.mode.vdisplay
               /\ run.bufs[n].width = run.mode.hdisplay
               /\ run.bufs[n].height >= run.mode.vdisplay
        /\ (run.bufs[n].dumb_created /\ run.opened = 0) =>
               /\ run.bufs[n].width = cap.width
               /\ run.bufs[n].height = cap.height


\* ---------------------------------------------------------------- C32
\* The step is a call of us_drm_expose_centered for hw, answered by io.
CenteredStep(hw, io) ==
    /\ ~aborted /\ Callable
    /\ call'.op = "expose_centered"
    /\ run' = us_drm_expose_centered(World, hw, io).run
    /\ kms' = us_drm_expose_centered(World, hw, io).kms
    /\ call'.ret = us_drm_expose_centered(World, hw, io).ret

\* C32: on the rpi and generic platforms us_drm_expose_centered for a
\* valid buffer of a display opened in DMA mode, with the connector
\* connected, no flip pending and the kernel accepting the flip, queues a
\* page flip of that buffer, clears has_vsync and pins the source's dma_fd.
C32_CenteredFlipsAndPins ==
    [][\A hw \in (IF run.opened = 0 /\ run.fd >= 0 THEN HwBuf(cap) ELSE {}) :
           (/\ run.platform \in {"rpi", "generic"}
            /\ kms.flip_pending = NoFlip
            /\ CenteredStep(hw, GoodIO))
           => /\ kms'.flip_pending.fb = run.bufs[hw.index + 1].id
              /\ ~run'.has_vsync
              /\ run'.exposing_dma_fd = hw.dma_fd
              /\ call'.ret = 0]_vars

\* What holds instead: us_drm_expose_centered never touches the pin, and
\* queues a flip only on the rpi platform for a buffer that is mapped.
C32_CenteredNeverPins ==
    [][call'.op = "expose_centered" =>
           /\ run'.exposing_dma_fd = run.exposing_dma_fd
           /\ (kms'.flip_pending \notin {kms.flip_pending, NoFlip} =>
                   /\ run.platform = "rpi"
                   /\ \E n \in 1..run.n_bufs :
                          /\ run.bufs[n].data
                          /\ kms'.flip_pending.fb = run.bufs[n].id)]_vars


\* ---------------------------------------------------------------- C33
\* C33: every us_mpp_h264_encoder_encode call that returns OK has written
\* the caller's h264 frame from a packet of that call (format H.264,
\* stride 0, used = the packet's length > 0); no call returns OK and leaves
\* the frame as it was.
C33_OkDescribesThisCallsPacket ==
    (mpp.op = "encode" /\ mpp.result = "OK") =>
        /\ mpp.out = "h264"
        /\ mpp.ret = "packet"

\* What holds instead: a call that returns OK has either extracted a packet
\* into the frame or met a get_packet timeout and left the frame untouched.
C33_OkIsPacketOrTimeout ==
    (mpp.op = "encode" /\ mpp.result = "OK") =>
        \/ mpp.out = "h264" /\ mpp.ret = "packet"
        \/ mpp.out = "untouched" /\ mpp.ret = "MPP_ERR_TIMEOUT"


\* ---------------------------------------------------------------- C34
\* C34: us_mpp_h264_encoder_encode never copies more bytes into the input
\* buffer than the size the buffer got at create time from the configured
\* width and height, whatever the used size of the input frame.
C34_CopyFitsInputBuffer ==
    (mpp.op = "encode" /\ mpp.copied > 0) =>
        mpp.copied <= _us_mpp_calc_frame_size(enc.width, enc.height)

\* What holds instead: the copy is as long as the frame's used size, and
\* the buffer has the size computed from the configured geometry.
C34_CopiesUsedBytes ==
    (mpp.op = "encode" /\ mpp.copied > 0) =>
        /\ mpp.copied = mpp.arg.used
        /\ enc.frm_buf = _us_mpp_calc_frame_size(enc.width, enc.height)

\* ---------------------------------------------------------------- C36
\* C36: every buffer and buffer group a create function got from the codec
\* library has been put back when us_mpp_processor_destroy has freed the
\* processor, also when the create function failed part-way and called
\* destroy itself.
C36_DestroyPutsEverythingBack ==
    /\ enc.freed => enc.held = {}
    /\ dec.freed => dec.held = {}

\* What holds instead: everything but the encoder's packet buffer is put
\* back.
C36_OnlyPacketBufferLeft ==
    /\ enc.freed => enc.held \subseteq {"pkt_buf"}
    /\ dec.freed => dec.held = {}
    /\ (enc.freed /\ mpp.op = "destroy_encoder") => enc.held = {"pkt_buf"}


\* ---------------------------------------------------------------- C35
\* C35: no call reads or writes the processor record after
\* us_mpp_processor_destroy has freed it; a call that passed the
\* initialized check and waits for the lock while destroy runs is refused
\* without touching the freed record.
C35_NoTouchAfterFree == ~waiter.touched_freed

\* What holds instead: a call that gets the lock before the record is
\* freed is refused once should_stop is set, and never touches freed memory.
C35_RefusedWhileRecordLives ==
    [][(waiter.pc = "lock" /\ ~enc.freed /\ waiter'.pc = "idle") =>
           /\ ~waiter'.touched_freed
           /\ enc.should_stop => mpp'.result = "NOT_INITIALIZED"]_vars


\* ---------------------------------------------------------------- C37
\* A call of the RGB24/BGR24 converter on a picture of at most MaxDim
\* columns and rows that reached the loops.
RgbConverted ==
    /\ img.calls > 0
    /\ img.src.format \in {"RGB24", "BGR24"}
    /\ img.target = "NV12"
    /\ img.result \in {"OK", "SIGSEGV"}
    /\ img.src.width \in 1..MaxDim
    /\ img.src.height \in 1..MaxDim

\* C37: for every width and height, odd ones included, the RGB24/BGR24 to
\* NV12 converter writes only destination offsets below width*height*3/2,
\* reads only source offsets below width*height*3, and each chroma sample
\* is the average over exactly the pixels of its 2x2 block that exist.
C37_RgbStaysInsideAndAverages ==
    RgbConverted =>
        /\ \A o \in RgbWrites(img.src.width, img.src.height) :
               o < (img.src.width * img.src.height * 3) \div 2
        /\ \A o \in RgbReads(img.src.width, img.src.height) :
               o < img.src.width * img.src.height * 3
        /\ \A s \in RgbChromaSteps(img.src.width, img.src.height) :
               s.divisor = Cardinality(s.pixels)

\* What holds instead: the reads stay inside the source for every geometry,
\* and the writes and the averages are right for even widths and heights.
C37_RgbRightForEvenGeometry ==
    RgbConverted =>
        /\ \A o \in RgbReads(img.src.width, img.src.height) :
               o < img.src.width * img.src.height * 3
        /\ (img.src.width % 2 = 0 /\ img.src.height % 2 = 0) =>
               /\ \A o \in RgbWrites(img.src.width, img.src.height) :
                      o < (img.src.width * img.src.height * 3) \div 2
               /\ \A s \in RgbChromaSteps(img.src.width, img.src.height) :
                      s.divisor = Cardinality(s.pixels)
               /\ img.result = "OK"
        /\ \A o \in RgbWrites(img.src.width, img.src.height) :
               o < Nv12Extent(img.src.width, img.src.height,
                              2 * (img.src.width \div 2))
        /\ Nv12Extent(img.src.width, img.src.height,
                      2 * (img.src.width \div 2)) - 1
              \in RgbWrites(img.src.width, img.src.height)


\* ---------------------------------------------------------------- C38
\* C38: on an open display has_vsync is false only while a page flip is
\* queued whose event has not been handled yet (the flip is pending, or its
\* event waits on the file); an expose call whose flip was refused, or that
\* returned early, does not leave has_vsync false.
C38_NoVsyncOnlyWhileFlipQueued ==
    (run.fd >= 0 /\ ~aborted /\ ~run.has_vsync) =>
        (kms.flip_pending # NoFlip \/ kms.events # <<>>)

\* What holds instead: has_vsync is false only after an expose call got as
\* far as its store to has_vsync, whatever became of its flip.
C38_NoVsyncOnlyAfterExpose ==
    [][(run.has_vsync /\ ~run'.has_vsync) =>
           /\ call'.op \in {"expose_stub", "expose_dma", "expose_centered",
                            "ensure_no_signal"}
           /\ call'.note.flip \in {"queued", "refused"}
              \/ (run.platform = "amlogic" /\ call'.op = "expose_centered")]_vars


\* ---------------------------------------------------------------- C39
\* The answers with which us_drm_open gets as far as _drm_init_buffers and
\* one step of a buffer's initialisation is made to fail.
BufferInitIO == {io \in OpenIO : io = [GoodOpenIO EXCEPT !.bio = io.bio]}

\* The step is the open of c with the answers io, and it failed.
FailedOpenStep(c, io) ==
    /\ run.fd < 0 /\ ~aborted
    /\ call'.op = "open" /\ call'.ret < 0
    /\ With(us_drm_open(World, c, io), LAMBDA w :
           run' = w.run /\ kms' = w.kms /\ call'.ret = w.ret)

ClosedRuntime(r) ==
    /\ r.fd < 0 /\ r.status_fd < 0
    /\ r.n_bufs = 0 /\ r.bufs = <<>>
    /\ r.saved_crtc = NoCrtc
    /\ r.opened = -1

\* C39: when us_drm_open fails at a step of the initialisation of buffer k,
\* its cleanup leaves no dumb buffer, no mapping and no framebuffer, those
\* of buffer k included, returns -1 and leaves the runtime closed.
C39_FailedBufferInitReleasesAll ==
    [][\A c \in Caps \cup {NoCap}, io \in BufferInitIO :
          FailedOpenStep(c, io) =>
              /\ kms'.dumbs = {} /\ kms'.maps = {} /\ kms'.fbs = {}
              /\ call'.ret = -1
              /\ ClosedRuntime(run')]_vars

\* What holds instead: the runtime is closed and the kernel's objects are
\* gone with the file, but the mapping of buffer k may stay.
C39_OnlyMappingOfFailedBufferLeft ==
    [][\A c \in Caps \cup {NoCap}, io \in BufferInitIO :
          FailedOpenStep(c, io) =>
              /\ kms'.dumbs = {} /\ kms'.fbs = {}
              /\ kms'.maps \subseteq {io.bio.fail_at + 1}
              /\ call'.ret = -1
              /\ ClosedRuntime(run')]_vars


\* ---------------------------------------------------------------- C40
\* The state us_drm_close leaves, field by field.
ClosedState(r) ==
    /\ r.fd < 0 /\ r.status_fd < 0
    /\ r.n_bufs = 0 /\ r.bufs = <<>>
    /\ r.saved_crtc = NoCrtc
    /\ r.opened = -1
    /\ r.has_vsync
    /\ r.exposing_dma_fd = -1
    /\ r.stub_n_buf = 0

\* us_drm_close called on the runtime r and the kernel state k.
ClosedAgain(r, k, io) ==
    us_drm_close([run |-> r, port |-> port, kms |-> k, ret |-> 0,
                  note |-> NoNote, aborted |-> FALSE], io)

\* C40: whatever calls came before, us_drm_close returns without a failed
\* assertion and leaves the runtime closed, so that us_drm_open may be
\* called again, and a second close changes neither the runtime nor the
\* kernel's state.
C40_CloseIsIdempotent ==
    [][call'.op = "close" =>
           /\ ~aborted'
           /\ ClosedState(run')
           /\ \A io \in CloseIO :
                  With(ClosedAgain(run', kms', io), LAMBDA w :
                      w.run = run' /\ w.kms = kms' /\ ~w.aborted)]_vars

\* A close that had a pinned DMA buffer to wait for and a CRTC to restore.
C40_Witness ==
    /\ call.op = "close"
    /\ call.note.restore = "ok"
    /\ call.note.status # "none"
    /\ run.fd < 0

====
